---- MODULE Spec2Model ----
(***************************************************************************)
(* Model of gemmi's crystallographic symmetry engine (symmetry.hpp):       *)
(* the Op algebra, coordinate triplets, the Hall-symbol interpreter and    *)
(* the closure of a generator set (Dimino's algorithm).                    *)
(*                                                                         *)
(* Text is modelled as a sequence of one-character strings; a C pointer    *)
(* into a string is the 1-based index of the character it points to, and   *)
(* reading at Len(s)+1 gives the terminating NUL.                          *)
(***************************************************************************)
EXTENDS Integers, Sequences, FiniteSets, TLC

VARIABLES
  pc,       \* what the caller has done so far
  hall,     \* the Hall symbol handed to generators_from_hall
  gops,     \* the GroupOps being built: [sym_ops, cen_ops]
  failure,  \* the failure raised by the last call (NoFailure if none)
  opA,      \* operand Op
  opB,      \* operand Op
  opC,      \* operand Op
  resL,     \* result Op of the last operation
  resR,     \* second result Op (the other side of an equation)
  text,     \* triplet text: the output of Op::triplet or the input of parse_triplet
  inexact,  \* divisions by DEN that left a remainder in the last combine
  calls,    \* the calls of hall_matrix_symbol made by the last generators_from_hall
  found,    \* const SpaceGroup* returned by a lookup: 1 + its position in main, 0 for nullptr
  other,    \* a second GroupOps: the group before change_basis, or the one compared with
  answer,   \* the value returned by the last query on gops
  iter,     \* a GroupOps::Iter over gops: [n_sym, n_cen]
  number    \* an int the caller holds: a space-group number, or the increments made

vars == <<pc, hall, gops, failure, opA, opB, opC, resL, resR, text, inexact, calls,
          found, other, answer, iter, number>>

\* the variables of the lookups and queries
query == <<found, other, answer, iter, number>>

----------------------------------------------------------------------------
(* C integer arithmetic: / truncates toward zero, % takes the dividend's sign *)

Abs(n) == IF n < 0 THEN -n ELSE n

CDiv(a, b) ==
  IF (a < 0) = (b < 0) THEN Abs(a) \div Abs(b) ELSE -(Abs(a) \div Abs(b))

CRem(a, b) == a - b * CDiv(a, b)

----------------------------------------------------------------------------
(* Characters *)

NUL == "NUL"
TAB == "TAB"
GRAVE == "GRAVE"

Printable ==
  << " ", "!", "\"", "#", "$", "%", "&", "'", "(", ")", "*", "+", ",", "-",
     ".", "/", "0", "1", "2", "3", "4", "5", "6", "7", "8", "9", ":", ";",
     "<", "=", ">", "?", "@", "A", "B", "C", "D", "E", "F", "G", "H", "I",
     "J", "K", "L", "M", "N", "O", "P", "Q", "R", "S", "T", "U", "V", "W",
     "X", "Y", "Z", "[", "\\", "]", "^", "_", GRAVE, "a", "b", "c", "d", "e",
     "f", "g", "h", "i", "j", "k", "l", "m", "n", "o", "p", "q", "r", "s",
     "t", "u", "v", "w", "x", "y", "z", "{", "|", "}", "~" >>

CharSet == {Printable[i] : i \in 1..Len(Printable)} \cup {NUL, TAB}

OrdMap ==
  [c \in CharSet |->
     IF c = NUL THEN 0
     ELSE IF c = TAB THEN 9
     ELSE 31 + (CHOOSE i \in 1..Len(Printable) : Printable[i] = c)]

Ord(c) == OrdMap[c]

Chr(n) == IF n = 0 THEN NUL ELSE IF n = 9 THEN TAB ELSE Printable[n - 31]

\* *p for a pointer p into the C string s
At(s, i) == IF i >= 1 /\ i <= Len(s) THEN s[i] ELSE NUL

Digits == <<"0", "1", "2", "3", "4", "5", "6", "7", "8", "9">>

IsDigit(c) == \E i \in 1..10 : Digits[i] = c

\* c - '0' for a digit c
DigitValue(c) == (CHOOSE i \in 1..10 : Digits[i] = c) - 1

InStr(c, lit) == \E i \in 1..Len(lit) : lit[i] = c

Sub(s, from, to) == IF from > to THEN <<>> ELSE SubSeq(s, from, to)

----------------------------------------------------------------------------
(* Results of functions that may fail (fail() throws std::runtime_error)   *)

NoOp == [rot |-> <<<<0, 0, 0>>, <<0, 0, 0>>, <<0, 0, 0>>>>, tran |-> <<0, 0, 0>>]

Ok(v) == [ok |-> TRUE, val |-> v, msg |-> "", arg |-> <<>>]

\* fail(msg + arg): msg is the fixed text, arg the text taken from the input
Fail(m, a) == [ok |-> FALSE, val |-> <<>>, msg |-> m, arg |-> a]

NoFailure == [msg |-> "", arg |-> <<>>]

FailureOf(r) == [msg |-> r.msg, arg |-> r.arg]

----------------------------------------------------------------------------
(* Op *)

DEN == 24

identity ==
  [rot |-> <<<<DEN, 0, 0>>, <<0, DEN, 0>>, <<0, 0, DEN>>>>, tran |-> <<0, 0, 0>>]

\* a wrap of negative components by remainder plus DEN
wrap1_floor_only(t) ==
  IF t >= DEN THEN CRem(t, DEN)
  ELSE IF t < 0 THEN CRem(t, DEN) + DEN
  ELSE t

\* one component of Op::wrap
wrap1(t) ==
  IF t >= DEN THEN CRem(t, DEN)
  ELSE IF t < 0 THEN CRem(t + 1, DEN) + DEN - 1
  ELSE t

wrap(op) ==
  [rot |-> op.rot,
   tran |-> <<wrap1(op.tran[1]), wrap1(op.tran[2]), wrap1(op.tran[3])>>]

translate(op, a) ==
  [rot |-> op.rot,
   tran |-> <<op.tran[1] + a[1], op.tran[2] + a[2], op.tran[3] + a[3]>>]

add_centering(op, a) == wrap(translate(op, a))

negated_rot(op) ==
  << <<-op.rot[1][1], -op.rot[1][2], -op.rot[1][3]>>,
     <<-op.rot[2][1], -op.rot[2][2], -op.rot[2][3]>>,
     <<-op.rot[3][1], -op.rot[3][2], -op.rot[3][3]>> >>

negated(op) ==
  [rot |-> negated_rot(op), tran |-> <<-op.tran[1], -op.tran[2], -op.tran[3]>>]

det_rot(op) ==
  LET r == op.rot IN
    r[1][1] * (r[2][2] * r[3][3] - r[2][3] * r[3][2])
  - r[1][2] * (r[2][1] * r[3][3] - r[2][3] * r[3][1])
  + r[1][3] * (r[2][1] * r[3][2] - r[2][2] * r[3][1])

\* the sum that combine divides by DEN to get r.rot[i][j]
RotNum(a, b, i, j) ==
  a.rot[i][1] * b.rot[1][j] + a.rot[i][2] * b.rot[2][j] + a.rot[i][3] * b.rot[3][j]

\* the sum that combine divides by DEN to get r.tran[i]
TranNum(a, b, i) ==
  a.tran[i] * DEN
  + a.rot[i][1] * b.tran[1] + a.rot[i][2] * b.tran[2] + a.rot[i][3] * b.tran[3]

\* a combine that adds the translations without rotating that of b
combine_tran_not_rotated(a, b) ==
  [rot |-> << <<CDiv(RotNum(a, b, 1, 1), DEN), CDiv(RotNum(a, b, 1, 2), DEN), CDiv(RotNum(a, b, 1, 3), DEN)>>,
              <<CDiv(RotNum(a, b, 2, 1), DEN), CDiv(RotNum(a, b, 2, 2), DEN), CDiv(RotNum(a, b, 2, 3), DEN)>>,
              <<CDiv(RotNum(a, b, 3, 1), DEN), CDiv(RotNum(a, b, 3, 2), DEN), CDiv(RotNum(a, b, 3, 3), DEN)>> >>,
   tran |-> <<a.tran[1] + b.tran[1], a.tran[2] + b.tran[2], a.tran[3] + b.tran[3]>>]

combine(a, b) ==
  [rot |-> << <<CDiv(RotNum(a, b, 1, 1), DEN), CDiv(RotNum(a, b, 1, 2), DEN), CDiv(RotNum(a, b, 1, 3), DEN)>>,
              <<CDiv(RotNum(a, b, 2, 1), DEN), CDiv(RotNum(a, b, 2, 2), DEN), CDiv(RotNum(a, b, 2, 3), DEN)>>,
              <<CDiv(RotNum(a, b, 3, 1), DEN), CDiv(RotNum(a, b, 3, 2), DEN), CDiv(RotNum(a, b, 3, 3), DEN)>> >>,
   tran |-> <<CDiv(TranNum(a, b, 1), DEN), CDiv(TranNum(a, b, 2), DEN), CDiv(TranNum(a, b, 3), DEN)>>]

\* how many of the twelve divisions of a.combine(b) leave a remainder
combine_remainders(a, b) ==
  Cardinality({ij \in (1..3) \X (1..3) : CRem(RotNum(a, b, ij[1], ij[2]), DEN) # 0})
  + Cardinality({i \in 1..3 : CRem(TranNum(a, b, i), DEN) # 0})

\* operator*
OpMul(a, b) == wrap(combine(a, b))

----------------------------------------------------------------------------
(* Op -> triplet *)

RECURSIVE to_string(_)
\* std::to_string / append_small_number: the decimal digits of n
to_string(n) ==
  IF n < 0 THEN <<"-">> \o to_string(-n)
  ELSE IF n < 10 THEN <<Digits[n + 1]>>
  ELSE to_string(n \div 10) \o <<Digits[(n % 10) + 1]>>

append_small_number(s, n) == s \o to_string(n)

\* append_sign_of without the + between terms
append_sign_of_negative_only(s, n) == IF n < 0 THEN s \o <<"-">> ELSE s

append_sign_of(s, n) ==
  IF n < 0 THEN s \o <<"-">>
  ELSE IF s # <<>> THEN s \o <<"+">>
  ELSE s

\* one round of the loop over the factors 2, 2, 2 and the test of the factor 3
reduce_by(p, f) ==
  IF CRem(p.w, f) = 0 THEN [w |-> CDiv(p.w, f), denom |-> p.denom]
  ELSE [w |-> p.w, denom |-> p.denom * f]

\* append w/DEN reduced to the lowest terms
append_op_fraction(s, w) ==
  LET Reduced(p) ==
        IF p.denom # 1
          THEN append_small_number(append_small_number(s, p.w) \o <<"/">>, p.denom)
          ELSE append_small_number(s, p.w)
  IN Reduced(reduce_by(reduce_by(reduce_by(reduce_by([w |-> w, denom |-> 1], 2), 2), 2), 3))

\* the term of make_triplet_part for xyz[i] (i = 0, 1, 2 is axis 1, 2, 3)
append_axis_term(s, v, axis) ==
  IF v = 0 THEN s
  ELSE IF Abs(v) # DEN
    THEN append_op_fraction(append_sign_of(s, v), Abs(v)) \o <<"*", <<"x", "y", "z">>[axis]>>
    ELSE append_sign_of(s, v) \o << <<"x", "y", "z">>[axis] >>

make_triplet_part(x, y, z, w) ==
  LET Shift(s3) == IF w # 0 THEN append_op_fraction(append_sign_of(s3, w), Abs(w)) ELSE s3
  IN Shift(append_axis_term(append_axis_term(append_axis_term(<<>>, x, 1), y, 2), z, 3))

\* Op::triplet
triplet(op) ==
  make_triplet_part(op.rot[1][1], op.rot[1][2], op.rot[1][3], op.tran[1])
  \o <<",">> \o make_triplet_part(op.rot[2][1], op.rot[2][2], op.rot[2][3], op.tran[2])
  \o <<",">> \o make_triplet_part(op.rot[3][1], op.rot[3][2], op.rot[3][3], op.tran[3])

inverse(op) ==
  LET r == op.rot
      t == op.tran
      d2 == DEN * DEN
      Tran(inv, i) == CDiv(-t[1] * inv[i][1] - t[2] * inv[i][2] - t[3] * inv[i][3], DEN)
      Inv(inv) == Ok([rot |-> inv, tran |-> <<Tran(inv, 1), Tran(inv, 2), Tran(inv, 3)>>])
      Rot(detr) ==
        Inv(<< << CDiv(d2 * (r[2][2] * r[3][3] - r[3][2] * r[2][3]), detr),
                  CDiv(d2 * (r[1][3] * r[3][2] - r[1][2] * r[3][3]), detr),
                  CDiv(d2 * (r[1][2] * r[2][3] - r[1][3] * r[2][2]), detr) >>,
               << CDiv(d2 * (r[2][3] * r[3][1] - r[2][1] * r[3][3]), detr),
                  CDiv(d2 * (r[1][1] * r[3][3] - r[1][3] * r[3][1]), detr),
                  CDiv(d2 * (r[2][1] * r[1][3] - r[1][1] * r[2][3]), detr) >>,
               << CDiv(d2 * (r[2][1] * r[3][2] - r[3][1] * r[2][2]), detr),
                  CDiv(d2 * (r[3][1] * r[1][2] - r[1][1] * r[3][2]), detr),
                  CDiv(d2 * (r[1][1] * r[2][2] - r[2][1] * r[1][2]), detr) >> >>)
      Checked(detr) ==
        IF detr = 0
          THEN Fail("cannot invert matrix: ", triplet([rot |-> r, tran |-> <<0, 0, 0>>]))
          ELSE Rot(detr)
  IN Checked(det_rot(op))

----------------------------------------------------------------------------
(* triplet -> Op *)

RECURSIVE skip_blank(_, _)
\* impl::skip_blank: '_' counts as a blank
skip_blank(s, p) ==
  IF At(s, p) \in {" ", TAB, "_"} THEN skip_blank(s, p + 1) ELSE p

RECURSIVE DigitsEnd(_, _)
DigitsEnd(s, p) == IF IsDigit(At(s, p)) THEN DigitsEnd(s, p + 1) ELSE p

RECURSIVE DigitsValue(_, _, _)
DigitsValue(s, from, to) ==
  IF from > to THEN 0
  ELSE DigitsValue(s, from, to - 1) * 10 + DigitValue(s[to])

RECURSIVE SkipSpace(_, _)
\* the white space strtol skips (isspace; '_' is not white space)
SkipSpace(s, p) == IF At(s, p) \in {" ", TAB} THEN SkipSpace(s, p + 1) ELSE p

\* std::strtol(s + p, &endptr, 10): [val, endptr]; no digits: 0 and endptr = p
strtol(s, p) ==
  LET Converted(q, d, e) ==
        IF e = d THEN [val |-> 0, endptr |-> p]
        ELSE [val |-> IF At(s, q) = "-" THEN -DigitsValue(s, d, e - 1)
                      ELSE DigitsValue(s, d, e - 1),
              endptr |-> e]
      Scanned(q, d) == Converted(q, d, DigitsEnd(s, d))
      Signed(q) == Scanned(q, IF At(s, q) \in {"+", "-"} THEN q + 1 ELSE q)
  IN Signed(SkipSpace(s, p))

AxisX == <<"x", "X", "h", "H", "a", "A">>
AxisY == <<"y", "Y", "k", "K", "b", "B">>
AxisZ == <<"z", "Z", "l", "L", "c", "C">>

RECURSIVE parse_triplet_part_loop(_, _, _, _)
\* the while loop of parse_triplet_part, entered with pointer c, coefficient num
\* and the row r collected so far
parse_triplet_part_loop(s, c0, num0, r) ==
  LET \* the end of the body: num goes to the column that the character at c names
      Term(num, is_shift, c) ==
        IF is_shift
          THEN parse_triplet_part_loop(s, c + 1, 0, [r EXCEPT ![4] = @ + num])
        ELSE IF InStr(At(s, c), AxisX)
          THEN parse_triplet_part_loop(s, c + 1, 0, [r EXCEPT ![1] = @ + num])
        ELSE IF InStr(At(s, c), AxisY)
          THEN parse_triplet_part_loop(s, c + 1, 0, [r EXCEPT ![2] = @ + num])
        ELSE IF InStr(At(s, c), AxisZ)
          THEN parse_triplet_part_loop(s, c + 1, 0, [r EXCEPT ![3] = @ + num])
        ELSE Fail("unexpected character '", <<At(s, c)>> \o s)
      \* is_shift = (*endptr != '*'); c = (is_shift ? endptr - 1 : skip_blank(endptr + 1))
      Number(num, endptr) ==
        IF At(s, endptr) # "*" THEN Term(num, TRUE, endptr - 1)
        ELSE Term(num, FALSE, skip_blank(s, endptr + 1))
      \* if (*endptr == '/'), with n2 what strtol read after the slash
      Fraction(num, n2) ==
        IF n2.val < 1 \/ DEN % n2.val # 0
          THEN Fail("Wrong denominator ", to_string(n2.val) \o s)
          ELSE Number(CDiv(num, n2.val), n2.endptr)
      \* num *= strtol(c, &endptr, 10), with n1 what strtol read
      Digits1(num, n1) ==
        IF At(s, n1.endptr) = "/" THEN Fraction(num * n1.val, strtol(s, n1.endptr + 1))
        ELSE Number(num * n1.val, n1.endptr)
      Coefficient(num, c) ==
        IF num = 0 THEN Fail("wrong or unsupported triplet format: ", s)
        ELSE IF IsDigit(At(s, c)) THEN Digits1(num, strtol(s, c))
        ELSE Term(num, FALSE, c)
      Body(c) ==
        IF At(s, c) = "+" THEN Coefficient(DEN, skip_blank(s, c + 1))
        ELSE IF At(s, c) = "-" THEN Coefficient(-DEN, skip_blank(s, c + 1))
        ELSE Coefficient(num0, c)
      While(c) ==
        IF At(s, c) = NUL
          THEN IF num0 # 0 THEN Fail("trailing sign in: ", s) ELSE Ok(r)
          ELSE Body(c)
  IN While(skip_blank(s, c0))

parse_triplet_part(s) == parse_triplet_part_loop(s, 1, DEN, <<0, 0, 0, 0>>)

\* std::count(s.begin(), s.end(), ',')
CountCommas(s) == Cardinality({i \in 1..Len(s) : s[i] = ","})

\* s.find(',', from)
FindComma(s, from) == CHOOSE i \in from..Len(s) : s[i] = "," /\ \A j \in from..(i - 1) : s[j] # ","

parse_triplet(s) ==
  IF CountCommas(s) # 2 THEN Fail("expected exactly two commas in triplet", <<>>)
  ELSE
    LET Rows(a, b, c) ==
          IF ~a.ok THEN a
          ELSE IF ~b.ok THEN b
          ELSE IF ~c.ok THEN c
          ELSE Ok([rot |-> << <<a.val[1], a.val[2], a.val[3]>>,
                              <<b.val[1], b.val[2], b.val[3]>>,
                              <<c.val[1], c.val[2], c.val[3]>> >>,
                   tran |-> <<a.val[4], b.val[4], c.val[4]>>])
        Parts(comma1, comma2) ==
          Rows(parse_triplet_part(Sub(s, 1, comma1 - 1)),
               parse_triplet_part(Sub(s, comma1 + 1, comma2 - 1)),
               parse_triplet_part(Sub(s, comma2 + 1, Len(s))))
        Second(comma1) == Parts(comma1, FindComma(s, comma1 + 1))
    IN Second(FindComma(s, 1))

----------------------------------------------------------------------------
(* GroupOps *)

\* what centring_vectors switches on: lattice_symbol & ~0x20
ClearBit5(code) == IF (code \div 32) % 2 = 1 THEN code - 32 ELSE code

centring_vectors(lattice_symbol) ==
  LET h == DEN \div 2
      t == DEN \div 3
      d == 2 * t
      c == ClearBit5(Ord(lattice_symbol))
  IN CASE c = Ord("P") -> Ok(<< <<0, 0, 0>> >>)
       [] c = Ord("A") -> Ok(<< <<0, 0, 0>>, <<0, h, h>> >>)
       [] c = Ord("B") -> Ok(<< <<0, 0, 0>>, <<h, 0, h>> >>)
       [] c = Ord("C") -> Ok(<< <<0, 0, 0>>, <<h, h, 0>> >>)
       [] c = Ord("I") -> Ok(<< <<0, 0, 0>>, <<h, h, h>> >>)
       [] c = Ord("R") -> Ok(<< <<0, 0, 0>>, <<t, d, d>>, <<d, t, t>> >>)
       [] c = Ord("S") -> Ok(<< <<0, 0, 0>>, <<t, t, d>>, <<d, t, d>> >>)
       [] c = Ord("T") -> Ok(<< <<0, 0, 0>>, <<t, d, t>>, <<d, t, d>> >>)
       [] c = Ord("H") -> Ok(<< <<0, 0, 0>>, <<t, d, 0>>, <<d, t, 0>> >>)
       [] c = Ord("F") -> Ok(<< <<0, 0, 0>>, <<0, h, h>>, <<h, 0, h>>, <<h, h, 0>> >>)
       [] OTHER -> Fail("not a lattice symbol: ", <<lattice_symbol>>)

EmptyGroupOps == [sym_ops |-> <<>>, cen_ops |-> <<>>]

order(g) == Len(g.sym_ops) * Len(g.cen_ops)

\* GroupOps::find_by_rotation: the index of the first op with rotation r, 0 for nullptr
find_by_rotation(sym_ops, r) ==
  IF \E i \in 1..Len(sym_ops) : sym_ops[i].rot = r
    THEN CHOOSE i \in 1..Len(sym_ops) :
           sym_ops[i].rot = r /\ \A j \in 1..(i - 1) : sym_ops[j].rot # r
    ELSE 0

\* GroupOps::get_op(n), n counted from 0
get_op(g, n) ==
  LET n_cen == n \div Len(g.sym_ops)
      n_sym == n % Len(g.sym_ops)
  IN add_centering(g.sym_ops[n_sym + 1], g.cen_ops[n_cen + 1])

\* an is_centric that looks for the inversion at the origin, translation included
is_centric_at_origin_only(g) == \E i \in 1..Len(g.sym_ops) : g.sym_ops[i] = negated(identity)

is_centric(g) == find_by_rotation(g.sym_ops, negated_rot(identity)) # 0

\* a conjugation that leaves out the inverse: cob.combine(op).wrap()
Conjugate_without_inverse(cob, inv, op) == wrap(combine(cob, op))

\* conjugation by cob: cob.combine(op).combine(inv).wrap()
Conjugate(cob, inv, op) == wrap(combine(combine(cob, op), inv))

\* the lattice points added from a super-cell when idet > 1
SuperCell(cen_ops, idet) ==
  LET n == Len(cen_ops) IN
  [m \in 1..(n * idet * idet * idet) |->
     LET q == (m - 1) \div n
         cen == cen_ops[((m - 1) % n) + 1]
         i == q \div (idet * idet)
         j == (q \div idet) % idet
         k == q % idet
     IN <<i * DEN + cen[1], j * DEN + cen[2], k * DEN + cen[3]>>]

\* a loop that erases every element after the first, equal to an earlier one or not
RemoveRedundant_erases_all(cen, i) == IF i < 2 THEN cen ELSE Sub(cen, 1, 1)

RECURSIVE RemoveRedundant(_, _)
\* the loop that erases cen_ops[i] when an earlier element equals it, i going down
RemoveRedundant(cen, i) ==
  IF i < 2 THEN cen
  ELSE IF \E j \in 1..(i - 1) : cen[j] = cen[i]
    THEN RemoveRedundant(Sub(cen, 1, i - 1) \o Sub(cen, i + 1, Len(cen)), i - 1)
    ELSE RemoveRedundant(cen, i - 1)

\* a change of basis that never calls cob.inverse()
change_basis_without_inverse(g, cob) == Ok(g)

change_basis(g, cob) ==
  IF g.sym_ops = <<>> \/ g.cen_ops = <<>> THEN Ok(g)
  ELSE
    LET Unique(sym, cen) == Ok([sym_ops |-> sym, cen_ops |-> RemoveRedundant(cen, Len(cen))])
        Centering(inv, sym, cen) ==
          Unique(sym, [i \in 1..Len(cen) |->
                         IF i = 1 THEN cen[1]
                         ELSE Conjugate(cob, inv, [rot |-> identity.rot, tran |-> cen[i]]).tran])
        Lattice(inv, sym, idet) ==
          Centering(inv, sym, IF idet > 1 THEN SuperCell(g.cen_ops, idet) ELSE g.cen_ops)
        Changed(inv) ==
          Lattice(inv,
                  [i \in 1..Len(g.sym_ops) |->
                     IF i = 1 THEN g.sym_ops[1] ELSE Conjugate(cob, inv, g.sym_ops[i])],
                  CDiv(det_rot(inv), DEN * DEN * DEN))
        Inverted(invr) == IF ~invr.ok THEN invr ELSE Changed(invr.val)
    IN Inverted(inverse(cob))

\* GroupOps::begin() and GroupOps::end()
Iter_begin(g) == [n_sym |-> 0, n_cen |-> 0]

Iter_end(g) == [n_sym |-> 0, n_cen |-> Len(g.cen_ops)]

\* Iter::operator++
Iter_increment(g, it) ==
  IF it.n_sym + 1 = Len(g.sym_ops)
    THEN [n_sym |-> 0, n_cen |-> it.n_cen + 1]
    ELSE [n_sym |-> it.n_sym + 1, n_cen |-> it.n_cen]

\* an operator* that forgets to wrap
Iter_deref_unwrapped(g, it) == translate(g.sym_ops[it.n_sym + 1], g.cen_ops[it.n_cen + 1])

\* Iter::operator*
Iter_deref(g, it) == wrap(translate(g.sym_ops[it.n_sym + 1], g.cen_ops[it.n_cen + 1]))

RECURSIVE range_for_row(_, _, _)
\* for (const Op& op : g) from it on, up to the increment that ends a run over
\* sym_ops: the iterator reached and the operations visited, after those in acc
range_for_row(g, it, acc) ==
  LET Stepped(next, visited) ==
        IF next.n_sym = 0 \/ next = Iter_end(g) THEN [it |-> next, acc |-> visited]
        ELSE range_for_row(g, next, visited)
  IN Stepped(Iter_increment(g, it), Append(acc, Iter_deref(g, it)))

RECURSIVE range_for(_, _, _)
\* for (const Op& op : g), from it on: the operations visited, after those in acc
range_for(g, it, acc) ==
  LET Run(row) == range_for(g, row.it, row.acc)
  IN IF it = Iter_end(g) THEN acc ELSE Run(range_for_row(g, it, acc))

\* operator< of std::array<int, N>, and of std::tie(rot, tran) written as 12 ints
LexLess(u, v) == \E i \in 1..Len(u) : u[i] < v[i] /\ \A j \in 1..(i - 1) : u[j] = v[j]

\* std::sort of a vector of int arrays into ascending order: the element of v
\* that goes to place k is the one with k elements of v not after it, equal
\* elements taken in the order they have in v
std_sort(v) ==
  LET Placed(w, rank) == [k \in 1..Len(w) |-> w[CHOOSE i \in 1..Len(w) : rank[i] = k]]
      Ranked(w) ==
        Placed(w, SubSeq([i \in 1..Len(w) |->
                            Cardinality({j \in 1..Len(w) :
                                           \/ LexLess(w[j], w[i])
                                           \/ w[j] = w[i] /\ j <= i})],
                         1, Len(w)))
  IN Ranked(SubSeq(v, 1, Len(v)))

\* the members Op::operator< compares, in order
OpKey(op) == op.rot[1] \o op.rot[2] \o op.rot[3] \o op.tran

KeyOp(k) ==
  [rot |-> <<SubSeq(k, 1, 3), SubSeq(k, 4, 6), SubSeq(k, 7, 9)>>, tran |-> SubSeq(k, 10, 12)]

\* a find_centering that compares cen_ops as they are
find_centering_unsorted(g) ==
  IF Len(g.cen_ops) = 1 /\ g.cen_ops[1] = <<0, 0, 0>> THEN "P"
  ELSE
    LET letters == <<"A", "B", "C", "I", "F", "R", "S", "T", "H">>
        hits == {n \in 1..Len(letters) : g.cen_ops = centring_vectors(letters[n]).val}
    IN IF hits = {} THEN NUL
       ELSE letters[CHOOSE n \in hits : \A m \in hits : n <= m]

\* GroupOps::find_centering: the letter, NUL for 0
find_centering(g) ==
  IF Len(g.cen_ops) = 1 /\ g.cen_ops[1] = <<0, 0, 0>> THEN "P"
  ELSE
    LET letters == <<"A", "B", "C", "I", "F", "R", "S", "T", "H">>
        First(hits) ==
          IF hits = {} THEN NUL
          ELSE letters[CHOOSE n \in hits : \A m \in hits : n <= m]
        Sorted(trans) ==
          First({n \in 1..Len(letters) : trans = centring_vectors(letters[n]).val})
    IN Sorted(std_sort(g.cen_ops))

\* GroupOps::all_ops_sorted: sym_ops outermost, cen_ops innermost, then sorted
all_ops_sorted(g) ==
  LET Listed(keys) == [n \in 1..Len(keys) |-> KeyOp(keys[n])]
      ncen == Len(g.cen_ops)
  IN Listed(std_sort([n \in 1..(Len(g.sym_ops) * ncen) |->
                        OpKey(add_centering(g.sym_ops[((n - 1) \div ncen) + 1],
                                            g.cen_ops[((n - 1) % ncen) + 1]))]))

\* GroupOps::is_same_as
is_same_as(g, o) ==
  IF Len(g.cen_ops) # Len(o.cen_ops) \/ Len(g.sym_ops) # Len(o.sym_ops) THEN FALSE
  ELSE all_ops_sorted(g) = all_ops_sorted(o)

\* what r[] holds after the loops of find_grid_factors over the operations ops:
\* per axis the smallest component that is not 0 and is below T, T if there is none
grid_factors_loop(ops) ==
  LET Smallest(c) == IF c = {} THEN DEN ELSE CHOOSE m \in c : \A k \in c : m <= k
  IN [i \in 1..3 |->
        Smallest({ops[n].tran[i] : n \in 1..Len(ops)} \ ({0} \cup {t \in {ops[n].tran[i] : n \in 1..Len(ops)} : t >= DEN}))]

\* a find_grid_factors that visits sym_ops and leaves the centring vectors out
find_grid_factors_sym_ops_only(g) ==
  LET Divided(r) == <<CDiv(DEN, r[1]), CDiv(DEN, r[2]), CDiv(DEN, r[3])>>
  IN Divided(grid_factors_loop(g.sym_ops))

\* GroupOps::find_grid_factors
find_grid_factors(g) ==
  LET Divided(r) == <<CDiv(DEN, r[1]), CDiv(DEN, r[2]), CDiv(DEN, r[3])>>
  IN Divided(grid_factors_loop(range_for(g, Iter_begin(g), <<>>)))

----------------------------------------------------------------------------
(* Dimino's algorithm *)

MaxGroupSize == 1023

\* the test of a candidate element that overlooks the element pushed last
known_rotation_but_last(sym_ops, r) ==
  \E i \in 1..(Len(sym_ops) - 1) : sym_ops[i].rot = r

\* the test of a candidate element against sym_ops in the coset loop
known_rotation(sym_ops, r) == find_by_rotation(sym_ops, r) # 0

RECURSIVE cyclic_loop(_, _)
\* for (Op g = sym_ops[1] * sym_ops[1]; g.rot != idrot; g *= sym_ops[1])
cyclic_loop(sym, g) ==
  IF g.rot = identity.rot THEN Ok(sym)
  ELSE IF Len(sym) + 1 > MaxGroupSize
    THEN Fail("1000+ elements in the group should not happen", <<>>)
    ELSE cyclic_loop(Append(sym, g), OpMul(g, sym[2]))

\* the body of the innermost loop for gen[n] and coset_repr[j]
coset_step(st, gen, init_size, j, n) ==
  LET Tested(sg) ==
        IF known_rotation(st.sym_ops, sg.rot) THEN st
        ELSE [sym_ops |-> st.sym_ops \o <<sg>>
                          \o [k \in 1..(init_size - 1) |-> OpMul(sg, st.sym_ops[k + 1])],
              coset_repr |-> Append(st.coset_repr, sg)]
  IN Tested(OpMul(gen[n], st.coset_repr[j]))

RECURSIVE coset_pass(_, _, _, _, _, _, _)
\* one pass of for (j < len) for (n < i + 1), at position (j, n)
coset_pass(st, gen, init_size, i, len, j, n) ==
  IF j > len THEN st
  ELSE IF n > i + 1 THEN coset_pass(st, gen, init_size, i, len, j + 1, 1)
  ELSE coset_pass(coset_step(st, gen, init_size, j, n), gen, init_size, i, len, j, n + 1)

RECURSIVE coset_loop(_, _, _, _)
\* the for (;;) loop for generator gen[i]
coset_loop(st, gen, init_size, i) ==
  LET Passed(len, st1) ==
        IF len = Len(st1.coset_repr) THEN Ok(st1.sym_ops)
        ELSE IF Len(st1.sym_ops) > MaxGroupSize
          THEN Fail("1000+ elements in the group should not happen", <<>>)
          ELSE coset_loop(st1, gen, init_size, i)
  IN Passed(Len(st.coset_repr), coset_pass(st, gen, init_size, i, Len(st.coset_repr), 1, 1))

\* a loop over the generators that never runs: only the first generator's powers are kept
generator_loop_never_entered(sym, gen, i) == Ok(sym)

RECURSIVE generator_loop(_, _, _)
\* for (size_t i = 1; i < gen.size(); ++i)
generator_loop(sym, gen, i) ==
  IF i >= Len(gen) THEN Ok(sym)
  ELSE LET Extended(r) == IF ~r.ok THEN r ELSE generator_loop(r.val, gen, i + 1)
       IN Extended(coset_loop([sym_ops |-> sym, coset_repr |-> <<identity>>], gen, Len(sym), i))

add_missing_elements(g) ==
  IF g.sym_ops = <<>> \/ g.sym_ops[1] # identity THEN Fail("oops", <<>>)
  ELSE IF Len(g.sym_ops) = 1 THEN Ok(g)
  ELSE
    LET gen == Sub(g.sym_ops, 2, Len(g.sym_ops))
        two == Sub(g.sym_ops, 1, 2)
        Closed(all) ==
          IF ~all.ok THEN all ELSE Ok([sym_ops |-> all.val, cen_ops |-> g.cen_ops])
        Cyclic(cyc) == IF ~cyc.ok THEN cyc ELSE Closed(generator_loop(cyc.val, gen, 1))
    IN Cyclic(cyclic_loop(two, OpMul(two[2], two[2])))


\* a split that takes every operation for a new rotation and finds no centring vector
split_centering_vectors_all_new(ops) == [sym_ops |-> <<identity>> \o ops, cen_ops |-> <<>>]

\* split_centering_vectors(ops): sym_ops is the identity followed by the
\* operations whose rotation was not met before, in the order met, the
\* translation of one replaced by zero when a later operation of the same
\* rotation has none; cen_ops is the translations of the operations whose
\* rotation is that of the identity, in the order met
split_centering_vectors(ops) ==
  LET IsNew(i) ==
        /\ ops[i].rot # identity.rot
        /\ \A j \in 1..(i - 1) : ops[j].rot # ops[i].rot
      Kept(i) ==
        IF \E j \in (i + 1)..Len(ops) : ops[j].rot = ops[i].rot /\ ops[j].tran = identity.tran
          THEN [rot |-> ops[i].rot, tran |-> identity.tran]
          ELSE ops[i]
      IsShift(op) == op.rot = identity.rot
      Built(pushed, shifts) ==
        [sym_ops |-> <<identity>> \o [k \in 1..Len(pushed) |-> Kept(pushed[k])],
         cen_ops |-> [k \in 1..Len(shifts) |-> shifts[k].tran]]
  IN Built(SelectSeq([i \in 1..Len(ops) |-> i], IsNew), SelectSeq(ops, IsShift))

----------------------------------------------------------------------------
(* Interpreting Hall symbols *)

\* hall_rotation_z(sel): sel is the order N or the code of the diagonal-axis mark
hall_rotation_z(sel) ==
  LET d == DEN IN
  CASE sel = 1 -> Ok(<< <<d, 0, 0>>, <<0, d, 0>>, <<0, 0, d>> >>)
    [] sel = 2 -> Ok(<< <<-d, 0, 0>>, <<0, -d, 0>>, <<0, 0, d>> >>)
    [] sel = 3 -> Ok(<< <<0, -d, 0>>, <<d, -d, 0>>, <<0, 0, d>> >>)
    [] sel = 4 -> Ok(<< <<0, -d, 0>>, <<d, 0, 0>>, <<0, 0, d>> >>)
    [] sel = 6 -> Ok(<< <<d, -d, 0>>, <<d, 0, 0>>, <<0, 0, d>> >>)
    [] sel = Ord("'") -> Ok(<< <<0, -d, 0>>, <<-d, 0, 0>>, <<0, 0, -d>> >>)
    [] sel = Ord("\"") -> Ok(<< <<0, d, 0>>, <<d, 0, 0>>, <<0, 0, -d>> >>)
    [] sel = Ord("*") -> Ok(<< <<0, 0, d>>, <<d, 0, 0>>, <<0, d, 0>> >>)
    [] OTHER -> Fail("incorrect axis definition", <<>>)

hall_translation_from_symbol(symbol) ==
  LET h == DEN \div 2
      q == DEN \div 4
  IN CASE symbol = "a" -> Ok(<<h, 0, 0>>)
       [] symbol = "b" -> Ok(<<0, h, 0>>)
       [] symbol = "c" -> Ok(<<0, 0, h>>)
       [] symbol = "n" -> Ok(<<h, h, h>>)
       [] symbol = "u" -> Ok(<<q, 0, 0>>)
       [] symbol = "v" -> Ok(<<0, q, 0>>)
       [] symbol = "w" -> Ok(<<0, 0, q>>)
       [] symbol = "d" -> Ok(<<q, q, q>>)
       [] OTHER -> Fail("unknown symbol: ", <<symbol>>)

\* the lambda alter_order, with i, j, k counted from 1
alter_order(r, i, j, k) ==
  << <<r[i][i], r[i][j], r[i][k]>>,
     <<r[j][i], r[j][j], r[j][k]>>,
     <<r[k][i], r[k][j], r[k][k]>> >>

RECURSIVE hall_symbol_scan(_, _, _, _, _)
\* for (; p < end; ++p) of hall_matrix_symbol; m holds N and what was read so far
hall_symbol_scan(s, start, end, p, m) ==
  IF p >= end THEN Ok(m)
  ELSE
    LET ch == At(s, p) IN
    IF Ord(ch) >= Ord("1") /\ Ord(ch) <= Ord("5")
      THEN IF m.fractional_tran # 0 THEN Fail("two numeric subscripts", <<>>)
           ELSE hall_symbol_scan(s, start, end, p + 1,
                                 [m EXCEPT !.fractional_tran = Ord(ch) - Ord("0")])
    ELSE IF ch \in {"'", "\"", "*"}
      THEN IF m.N # (IF ch = "*" THEN 3 ELSE 2)
             THEN Fail("wrong symbol: ", Sub(s, start, end - 1))
             ELSE hall_symbol_scan(s, start, end, p + 1, [m EXCEPT !.diagonal_axis = ch])
    ELSE IF ch \in {"x", "y", "z"}
      THEN hall_symbol_scan(s, start, end, p + 1, [m EXCEPT !.principal_axis = ch])
    ELSE LET t == hall_translation_from_symbol(ch) IN
         IF ~t.ok THEN t
         ELSE hall_symbol_scan(s, start, end, p + 1,
                               [m EXCEPT !.tran = <<@[1] + t.val[1], @[2] + t.val[2], @[3] + t.val[3]>>])

\* "fill in implicit values": the axes after the defaults are applied, or the failure
implicit_axes(m, pos, prev) ==
  IF m.principal_axis # NUL \/ m.diagonal_axis # NUL THEN Ok(m)
  ELSE IF pos = 1 THEN Ok([m EXCEPT !.principal_axis = "z"])
  ELSE IF pos = 2 /\ m.N = 2
    THEN IF prev = 2 \/ prev = 4 THEN Ok([m EXCEPT !.principal_axis = "x"])
         ELSE IF prev = 3 \/ prev = 6 THEN Ok([m EXCEPT !.diagonal_axis = "'"])
         ELSE Ok(m)
  ELSE IF pos = 3 /\ m.N = 3 THEN Ok([m EXCEPT !.diagonal_axis = "*"])
  ELSE IF m.N # 1 THEN Fail("missing axis", <<>>)
  ELSE Ok(m)

\* hall_matrix_symbol(start, end, pos, prev) on the characters s[start .. end-1].
\* The value is [op, prev, tran_index]: tran_index is the index principal_axis - 'x'
\* written by op.tran[...] += ..., or 0 when there is no fractional translation.
hall_matrix_symbol(s, start, end, pos, prev) ==
  LET neg == At(s, start) = "-"
      p == IF neg THEN start + 1 ELSE start
      N == Ord(At(s, p)) - Ord("0")
      \* if (fractional_tran) op.tran[principal_axis - 'x'] += Op::DEN / N * fractional_tran
      Shifted(m, rot, idx) ==
        Ok([op |-> [rot |-> rot,
                    tran |-> IF m.fractional_tran # 0 /\ idx \in 0..2
                               THEN [m.tran EXCEPT ![idx + 1] = @ + CDiv(DEN, N) * m.fractional_tran]
                               ELSE m.tran],
            prev |-> N,
            tran_index |-> IF m.fractional_tran # 0 THEN idx ELSE 0])
      Altered(m, r1) ==
        Shifted(m,
                IF m.principal_axis = "x" THEN alter_order(r1, 3, 1, 2)
                ELSE IF m.principal_axis = "y" THEN alter_order(r1, 2, 3, 1)
                ELSE r1,
                Ord(m.principal_axis) - Ord("x"))
      Rotated(m, rz) ==
        IF ~rz.ok THEN rz
        ELSE IF neg THEN Altered(m, negated_rot([rot |-> rz.val, tran |-> <<0, 0, 0>>]))
        ELSE Altered(m, rz.val)
      Rotation(m) ==
        IF m.diagonal_axis # NUL THEN Rotated(m, hall_rotation_z(Ord(m.diagonal_axis)))
        ELSE Rotated(m, hall_rotation_z(N))
      Filled(filled) == IF ~filled.ok THEN filled ELSE Rotation(filled.val)
      Scanned(scanned) ==
        IF ~scanned.ok THEN scanned ELSE Filled(implicit_axes(scanned.val, pos, prev))
  IN
  IF Ord(At(s, p)) < Ord("1") \/ At(s, p) = "5" \/ Ord(At(s, p)) > Ord("6")
    THEN Fail("wrong n-fold order notation: ", Sub(s, start, end - 1))
    ELSE Scanned(hall_symbol_scan(s, start, end, p + 1,
                   [N |-> N, fractional_tran |-> 0, principal_axis |-> NUL,
                    diagonal_axis |-> NUL, tran |-> <<0, 0, 0>>]))

\* Parses either short (0 0 1) or long notation (x,y,z+1/12), s[start .. end-1]
parse_hall_change_of_basis(s, start, end) ==
  IF \E i \in start..(end - 1) : s[i] = ","
    THEN parse_triplet(Sub(s, start, end - 1))
  ELSE
    LET Component(n) == CRem(n.val, 12) * (DEN \div 12)
        Short(n1, n2, n3) ==
          IF n3.endptr # end
            THEN Fail("unexpected change-of-basis format: ", Sub(s, n3.endptr, end - 1))
            ELSE Ok([rot |-> identity.rot,
                     tran |-> <<Component(n1), Component(n2), Component(n3)>>])
        Third(n1, n2) == Short(n1, n2, strtol(s, n2.endptr))
        Second(n1) == Third(n1, strtol(s, n1.endptr))
    IN Second(strtol(s, start))

RECURSIVE find_blank(_, _)
\* the lambda find_blank of generators_from_hall
find_blank(s, p) ==
  IF At(s, p) \notin {NUL, " ", TAB, "_"} THEN find_blank(s, p + 1) ELSE p

\* std::strchr(part, ')'): 0 for nullptr
FindRightParen(s, from) ==
  IF \E i \in from..Len(s) : s[i] = ")"
    THEN CHOOSE i \in from..Len(s) : s[i] = ")" /\ \A j \in from..(i - 1) : s[j] # ")"
    ELSE 0

\* a loop that skips no matrix symbol
never_lone_one(s, part) == FALSE

\* whether the loop of generators_from_hall skips the matrix symbol at part
\* (a lone "1" is the identity and adds nothing)
is_lone_one(s, part) == ~(At(s, part) # "1" \/ (At(s, part + 1) # " " /\ At(s, part + 1) # NUL))

RECURSIVE hall_parts_loop(_, _, _, _, _, _, _)
\* while (*part != '\0' && *part != '('); the value is [sym_ops, part, ub, calls]:
\* calls lists the calls of hall_matrix_symbol, each with the text of the symbol,
\* the arguments pos and prev it was given, the Op it returned and the index of
\* op.tran[] it wrote to (0 when it wrote to none)
hall_parts_loop(s, part, counter0, prev, sym_ops, ub, made) ==
  IF At(s, part) = NUL \/ At(s, part) = "("
    THEN Ok([sym_ops |-> sym_ops, part |-> part, ub |-> ub, calls |-> made])
  ELSE
    LET Symbol(space, r) ==
          IF ~r.ok THEN r
          ELSE hall_parts_loop(s, skip_blank(s, space), counter0 + 1, r.val.prev,
                               Append(sym_ops, r.val.op),
                               ub \/ r.val.tran_index \notin 0..2,
                               Append(made, [symbol |-> Sub(s, part, space - 1),
                                             pos |-> counter0 + 1, prev |-> prev,
                                             op |-> r.val.op,
                                             tran_index |-> r.val.tran_index]))
        Part(space) ==
          IF is_lone_one(s, part)
            THEN hall_parts_loop(s, skip_blank(s, space), counter0 + 1, prev, sym_ops, ub, made)
            ELSE Symbol(space, hall_matrix_symbol(s, part, space, counter0 + 1, prev))
    IN Part(find_blank(s, part))

\* generators_from_hall(hall): Ok([sym_ops, cen_ops, ub, calls]) or the failure;
\* ub tells that a matrix symbol wrote op.tran[] outside the array
generators_from_hall(hall0) ==
  LET s == Sub(hall0, skip_blank(hall0, 1), Len(hall0))
      centrosym == At(s, 1) = "-"
      Returned(g, parts) ==
        Ok([sym_ops |-> g.sym_ops, cen_ops |-> g.cen_ops,
            ub |-> parts.ub, calls |-> parts.calls])
      Changed(changed, parts, rb) ==
        IF ~changed.ok THEN changed
        ELSE IF At(s, skip_blank(s, find_blank(s, rb + 1))) # NUL
          THEN Fail("unexpected characters after ')': ", s)
          ELSE Returned(changed.val, parts)
      Basis(cob, g, parts, rb) ==
        IF ~cob.ok THEN cob ELSE Changed(change_basis(g, cob.val), parts, rb)
      Clause(g, parts, rb) ==
        IF rb = 0 THEN Fail("missing ')': ", s)
        ELSE Basis(parse_hall_change_of_basis(s, parts.part + 1, rb), g, parts, rb)
      Parts(cen, parts) ==
        IF At(s, parts.part) # "("
          THEN Returned([sym_ops |-> parts.sym_ops, cen_ops |-> cen], parts)
          ELSE Clause([sym_ops |-> parts.sym_ops, cen_ops |-> cen], parts,
                      FindRightParen(s, parts.part))
      Symbols(cen, parts) == IF ~parts.ok THEN parts ELSE Parts(cen, parts.val)
      Lattice(lat, cen) ==
        IF ~cen.ok THEN cen
        ELSE Symbols(cen.val,
                     hall_parts_loop(s, skip_blank(s, lat + 1), 0, 0,
                                     IF centrosym THEN <<identity, negated(identity)>>
                                     ELSE <<identity>>,
                                     FALSE, <<>>))
      Letter(lat) == Lattice(lat, centring_vectors(At(s, lat)))
  IN Letter(skip_blank(s, IF centrosym THEN 2 ELSE 1))

symops_from_hall(hall0) ==
  LET Generators(g) ==
        IF ~g.ok THEN g
        ELSE add_missing_elements([sym_ops |-> g.val.sym_ops, cen_ops |-> g.val.cen_ops])
  IN Generators(generators_from_hall(hall0))

----------------------------------------------------------------------------
(* The table of space-group settings (spacegroup_tables::main) *)

SpaceGroupTable == <<
  [number |-> 1, ccp4 |-> 1, hm |-> <<"P", " ", "1">>, ext |-> NUL, hall |-> <<"P", " ", "1">>, basisop_idx |-> 0],
  [number |-> 2, ccp4 |-> 2, hm |-> <<"P", " ", "-", "1">>, ext |-> NUL, hall |-> <<"-", "P", " ", "1">>, basisop_idx |-> 0],
  [number |-> 3, ccp4 |-> 3, hm |-> <<"P", " ", "1", " ", "2", " ", "1">>, ext |-> NUL, hall |-> <<"P", " ", "2", "y">>, basisop_idx |-> 0],
  [number |-> 3, ccp4 |-> 1003, hm |-> <<"P", " ", "1", " ", "1", " ", "2">>, ext |-> NUL, hall |-> <<"P", " ", "2">>, basisop_idx |-> 1],
  [number |-> 3, ccp4 |-> 0, hm |-> <<"P", " ", "2", " ", "1", " ", "1">>, ext |-> NUL, hall |-> <<"P", " ", "2", "x">>, basisop_idx |-> 2],
  [number |-> 4, ccp4 |-> 4, hm |-> <<"P", " ", "1", " ", "2", "1", " ", "1">>, ext |-> NUL, hall |-> <<"P", " ", "2", "y", "b">>, basisop_idx |-> 0],
  [number |-> 4, ccp4 |-> 1004, hm |-> <<"P", " ", "1", " ", "1", " ", "2", "1">>, ext |-> NUL, hall |-> <<"P", " ", "2", "c">>, basisop_idx |-> 1],
  [number |-> 4, ccp4 |-> 0, hm |-> <<"P", " ", "2", "1", " ", "1", " ", "1">>, ext |-> NUL, hall |-> <<"P", " ", "2", "x", "a">>, basisop_idx |-> 2],
  [number |-> 5, ccp4 |-> 5, hm |-> <<"C", " ", "1", " ", "2", " ", "1">>, ext |-> NUL, hall |-> <<"C", " ", "2", "y">>, basisop_idx |-> 0],
  [number |-> 5, ccp4 |-> 2005, hm |-> <<"A", " ", "1", " ", "2", " ", "1">>, ext |-> NUL, hall |-> <<"A", " ", "2", "y">>, basisop_idx |-> 3],
  [number |-> 5, ccp4 |-> 4005, hm |-> <<"I", " ", "1", " ", "2", " ", "1">>, ext |-> NUL, hall |-> <<"I", " ", "2", "y">>, basisop_idx |-> 4],
  [number |-> 5, ccp4 |-> 0, hm |-> <<"A", " ", "1", " ", "1", " ", "2">>, ext |-> NUL, hall |-> <<"A", " ", "2">>, basisop_idx |-> 1],
  [number |-> 5, ccp4 |-> 1005, hm |-> <<"B", " ", "1", " ", "1", " ", "2">>, ext |-> NUL, hall |-> <<"B", " ", "2">>, basisop_idx |-> 5],
  [number |-> 5, ccp4 |-> 0, hm |-> <<"I", " ", "1", " ", "1", " ", "2">>, ext |-> NUL, hall |-> <<"I", " ", "2">>, basisop_idx |-> 6],
  [number |-> 5, ccp4 |-> 0, hm |-> <<"B", " ", "2", " ", "1", " ", "1">>, ext |-> NUL, hall |-> <<"B", " ", "2", "x">>, basisop_idx |-> 2],
  [number |-> 5, ccp4 |-> 0, hm |-> <<"C", " ", "2", " ", "1", " ", "1">>, ext |-> NUL, hall |-> <<"C", " ", "2", "x">>, basisop_idx |-> 7],
  [number |-> 5, ccp4 |-> 0, hm |-> <<"I", " ", "2", " ", "1", " ", "1">>, ext |-> NUL, hall |-> <<"I", " ", "2", "x">>, basisop_idx |-> 8],
  [number |-> 6, ccp4 |-> 6, hm |-> <<"P", " ", "1", " ", "m", " ", "1">>, ext |-> NUL, hall |-> <<"P", " ", "-", "2", "y">>, basisop_idx |-> 0],
  [number |-> 6, ccp4 |-> 1006, hm |-> <<"P", " ", "1", " ", "1", " ", "m">>, ext |-> NUL, hall |-> <<"P", " ", "-", "2">>, basisop_idx |-> 1],
  [number |-> 6, ccp4 |-> 0, hm |-> <<"P", " ", "m", " ", "1", " ", "1">>, ext |-> NUL, hall |-> <<"P", " ", "-", "2", "x">>, basisop_idx |-> 2],
  [number |-> 7, ccp4 |-> 7, hm |-> <<"P", " ", "1", " ", "c", " ", "1">>, ext |-> NUL, hall |-> <<"P", " ", "-", "2", "y", "c">>, basisop_idx |-> 0],
  [number |-> 7, ccp4 |-> 0, hm |-> <<"P", " ", "1", " ", "n", " ", "1">>, ext |-> NUL, hall |-> <<"P", " ", "-", "2", "y", "a", "c">>, basisop_idx |-> 9],
  [number |-> 7, ccp4 |-> 0, hm |-> <<"P", " ", "1", " ", "a", " ", "1">>, ext |-> NUL, hall |-> <<"P", " ", "-", "2", "y", "a">>, basisop_idx |-> 3],
  [number |-> 7, ccp4 |-> 0, hm |-> <<"P", " ", "1", " ", "1", " ", "a">>, ext |-> NUL, hall |-> <<"P", " ", "-", "2", "a">>, basisop_idx |-> 1],
  [number |-> 7, ccp4 |-> 0, hm |-> <<"P", " ", "1", " ", "1", " ", "n">>, ext |-> NUL, hall |-> <<"P", " ", "-", "2", "a", "b">>, basisop_idx |-> 10],
  [number |-> 7, ccp4 |-> 1007, hm |-> <<"P", " ", "1", " ", "1", " ", "b">>, ext |-> NUL, hall |-> <<"P", " ", "-", "2", "b">>, basisop_idx |-> 5],
  [number |-> 7, ccp4 |-> 0, hm |-> <<"P", " ", "b", " ", "1", " ", "1">>, ext |-> NUL, hall |-> <<"P", " ", "-", "2", "x", "b">>, basisop_idx |-> 2],
  [number |-> 7, ccp4 |-> 0, hm |-> <<"P", " ", "n", " ", "1", " ", "1">>, ext |-> NUL, hall |-> <<"P", " ", "-", "2", "x", "b", "c">>, basisop_idx |-> 11],
  [number |-> 7, ccp4 |-> 0, hm |-> <<"P", " ", "c", " ", "1", " ", "1">>, ext |-> NUL, hall |-> <<"P", " ", "-", "2", "x", "c">>, basisop_idx |-> 7],
  [number |-> 8, ccp4 |-> 8, hm |-> <<"C", " ", "1", " ", "m", " ", "1">>, ext |-> NUL, hall |-> <<"C", " ", "-", "2", "y">>, basisop_idx |-> 0],
  [number |-> 8, ccp4 |-> 0, hm |-> <<"A", " ", "1", " ", "m", " ", "1">>, ext |-> NUL, hall |-> <<"A", " ", "-", "2", "y">>, basisop_idx |-> 3],
  [number |-> 8, ccp4 |-> 0, hm |-> <<"I", " ", "1", " ", "m", " ", "1">>, ext |-> NUL, hall |-> <<"I", " ", "-", "2", "y">>, basisop_idx |-> 4],
  [number |-> 8, ccp4 |-> 0, hm |-> <<"A", " ", "1", " ", "1", " ", "m">>, ext |-> NUL, hall |-> <<"A", " ", "-", "2">>, basisop_idx |-> 1],
  [number |-> 8, ccp4 |-> 1008, hm |-> <<"B", " ", "1", " ", "1", " ", "m">>, ext |-> NUL, hall |-> <<"B", " ", "-", "2">>, basisop_idx |-> 5],
  [number |-> 8, ccp4 |-> 0, hm |-> <<"I", " ", "1", " ", "1", " ", "m">>, ext |-> NUL, hall |-> <<"I", " ", "-", "2">>, basisop_idx |-> 6],
  [number |-> 8, ccp4 |-> 0, hm |-> <<"B", " ", "m", " ", "1", " ", "1">>, ext |-> NUL, hall |-> <<"B", " ", "-", "2", "x">>, basisop_idx |-> 2],
  [number |-> 8, ccp4 |-> 0, hm |-> <<"C", " ", "m", " ", "1", " ", "1">>, ext |-> NUL, hall |-> <<"C", " ", "-", "2", "x">>, basisop_idx |-> 7],
  [number |-> 8, ccp4 |-> 0, hm |-> <<"I", " ", "m", " ", "1", " ", "1">>, ext |-> NUL, hall |-> <<"I", " ", "-", "2", "x">>, basisop_idx |-> 8],
  [number |-> 9, ccp4 |-> 9, hm |-> <<"C", " ", "1", " ", "c", " ", "1">>, ext |-> NUL, hall |-> <<"C", " ", "-", "2", "y", "c">>, basisop_idx |-> 0],
  [number |-> 9, ccp4 |-> 0, hm |-> <<"A", " ", "1", " ", "n", " ", "1">>, ext |-> NUL, hall |-> <<"A", " ", "-", "2", "y", "a", "b">>, basisop_idx |-> 12],
  [number |-> 9, ccp4 |-> 0, hm |-> <<"I", " ", "1", " ", "a", " ", "1">>, ext |-> NUL, hall |-> <<"I", " ", "-", "2", "y", "a">>, basisop_idx |-> 13],
  [number |-> 9, ccp4 |-> 0, hm |-> <<"A", " ", "1", " ", "a", " ", "1">>, ext |-> NUL, hall |-> <<"A", " ", "-", "2", "y", "a">>, basisop_idx |-> 3],
  [number |-> 9, ccp4 |-> 0, hm |-> <<"C", " ", "1", " ", "n", " ", "1">>, ext |-> NUL, hall |-> <<"C", " ", "-", "2", "y", "a", "c">>, basisop_idx |-> 14],
  [number |-> 9, ccp4 |-> 0, hm |-> <<"I", " ", "1", " ", "c", " ", "1">>, ext |-> NUL, hall |-> <<"I", " ", "-", "2", "y", "c">>, basisop_idx |-> 4],
  [number |-> 9, ccp4 |-> 0, hm |-> <<"A", " ", "1", " ", "1", " ", "a">>, ext |-> NUL, hall |-> <<"A", " ", "-", "2", "a">>, basisop_idx |-> 1],
  [number |-> 9, ccp4 |-> 0, hm |-> <<"B", " ", "1", " ", "1", " ", "n">>, ext |-> NUL, hall |-> <<"B", " ", "-", "2", "a", "b">>, basisop_idx |-> 15],
  [number |-> 9, ccp4 |-> 0, hm |-> <<"I", " ", "1", " ", "1", " ", "b">>, ext |-> NUL, hall |-> <<"I", " ", "-", "2", "b">>, basisop_idx |-> 16],
  [number |-> 9, ccp4 |-> 1009, hm |-> <<"B", " ", "1", " ", "1", " ", "b">>, ext |-> NUL, hall |-> <<"B", " ", "-", "2", "b">>, basisop_idx |-> 5],
  [number |-> 9, ccp4 |-> 0, hm |-> <<"A", " ", "1", " ", "1", " ", "n">>, ext |-> NUL, hall |-> <<"A", " ", "-", "2", "a", "b">>, basisop_idx |-> 10],
  [number |-> 9, ccp4 |-> 0, hm |-> <<"I", " ", "1", " ", "1", " ", "a">>, ext |-> NUL, hall |-> <<"I", " ", "-", "2", "a">>, basisop_idx |-> 6],
  [number |-> 9, ccp4 |-> 0, hm |-> <<"B", " ", "b", " ", "1", " ", "1">>, ext |-> NUL, hall |-> <<"B", " ", "-", "2", "x", "b">>, basisop_idx |-> 2],
  [number |-> 9, ccp4 |-> 0, hm |-> <<"C", " ", "n", " ", "1", " ", "1">>, ext |-> NUL, hall |-> <<"C", " ", "-", "2", "x", "a", "c">>, basisop_idx |-> 17],
  [number |-> 9, ccp4 |-> 0, hm |-> <<"I", " ", "c", " ", "1", " ", "1">>, ext |-> NUL, hall |-> <<"I", " ", "-", "2", "x", "c">>, basisop_idx |-> 18],
  [number |-> 9, ccp4 |-> 0, hm |-> <<"C", " ", "c", " ", "1", " ", "1">>, ext |-> NUL, hall |-> <<"C", " ", "-", "2", "x", "c">>, basisop_idx |-> 7],
  [number |-> 9, ccp4 |-> 0, hm |-> <<"B", " ", "n", " ", "1", " ", "1">>, ext |-> NUL, hall |-> <<"B", " ", "-", "2", "x", "a", "b">>, basisop_idx |-> 11],
  [number |-> 9, ccp4 |-> 0, hm |-> <<"I", " ", "b", " ", "1", " ", "1">>, ext |-> NUL, hall |-> <<"I", " ", "-", "2", "x", "b">>, basisop_idx |-> 8],
  [number |-> 10, ccp4 |-> 10, hm |-> <<"P", " ", "1", " ", "2", "/", "m", " ", "1">>, ext |-> NUL, hall |-> <<"-", "P", " ", "2", "y">>, basisop_idx |-> 0],
  [number |-> 10, ccp4 |-> 1010, hm |-> <<"P", " ", "1", " ", "1", " ", "2", "/", "m">>, ext |-> NUL, hall |-> <<"-", "P", " ", "2">>, basisop_idx |-> 1],
  [number |-> 10, ccp4 |-> 0, hm |-> <<"P", " ", "2", "/", "m", " ", "1", " ", "1">>, ext |-> NUL, hall |-> <<"-", "P", " ", "2", "x">>, basisop_idx |-> 2],
  [number |-> 11, ccp4 |-> 11, hm |-> <<"P", " ", "1", " ", "2", "1", "/", "m", " ", "1">>, ext |-> NUL, hall |-> <<"-", "P", " ", "2", "y", "b">>, basisop_idx |-> 0],
  [number |-> 11, ccp4 |-> 1011, hm |-> <<"P", " ", "1", " ", "1", " ", "2", "1", "/", "m">>, ext |-> NUL, hall |-> <<"-", "P", " ", "2", "c">>, basisop_idx |-> 1],
  [number |-> 11, ccp4 |-> 0, hm |-> <<"P", " ", "2", "1", "/", "m", " ", "1", " ", "1">>, ext |-> NUL, hall |-> <<"-", "P", " ", "2", "x", "a">>, basisop_idx |-> 2],
  [number |-> 12, ccp4 |-> 12, hm |-> <<"C", " ", "1", " ", "2", "/", "m", " ", "1">>, ext |-> NUL, hall |-> <<"-", "C", " ", "2", "y">>, basisop_idx |-> 0],
  [number |-> 12, ccp4 |-> 0, hm |-> <<"A", " ", "1", " ", "2", "/", "m", " ", "1">>, ext |-> NUL, hall |-> <<"-", "A", " ", "2", "y">>, basisop_idx |-> 3],
  [number |-> 12, ccp4 |-> 0, hm |-> <<"I", " ", "1", " ", "2", "/", "m", " ", "1">>, ext |-> NUL, hall |-> <<"-", "I", " ", "2", "y">>, basisop_idx |-> 4],
  [number |-> 12, ccp4 |-> 0, hm |-> <<"A", " ", "1", " ", "1", " ", "2", "/", "m">>, ext |-> NUL, hall |-> <<"-", "A", " ", "2">>, basisop_idx |-> 1],
  [number |-> 12, ccp4 |-> 1012, hm |-> <<"B", " ", "1", " ", "1", " ", "2", "/", "m">>, ext |-> NUL, hall |-> <<"-", "B", " ", "2">>, basisop_idx |-> 5],
  [number |-> 12, ccp4 |-> 0, hm |-> <<"I", " ", "1", " ", "1", " ", "2", "/", "m">>, ext |-> NUL, hall |-> <<"-", "I", " ", "2">>, basisop_idx |-> 6],
  [number |-> 12, ccp4 |-> 0, hm |-> <<"B", " ", "2", "/", "m", " ", "1", " ", "1">>, ext |-> NUL, hall |-> <<"-", "B", " ", "2", "x">>, basisop_idx |-> 2],
  [number |-> 12, ccp4 |-> 0, hm |-> <<"C", " ", "2", "/", "m", " ", "1", " ", "1">>, ext |-> NUL, hall |-> <<"-", "C", " ", "2", "x">>, basisop_idx |-> 7],
  [number |-> 12, ccp4 |-> 0, hm |-> <<"I", " ", "2", "/", "m", " ", "1", " ", "1">>, ext |-> NUL, hall |-> <<"-", "I", " ", "2", "x">>, basisop_idx |-> 8],
  [number |-> 13, ccp4 |-> 13, hm |-> <<"P", " ", "1", " ", "2", "/", "c", " ", "1">>, ext |-> NUL, hall |-> <<"-", "P", " ", "2", "y", "c">>, basisop_idx |-> 0],
  [number |-> 13, ccp4 |-> 0, hm |-> <<"P", " ", "1", " ", "2", "/", "n", " ", "1">>, ext |-> NUL, hall |-> <<"-", "P", " ", "2", "y", "a", "c">>, basisop_idx |-> 9],
  [number |-> 13, ccp4 |-> 0, hm |-> <<"P", " ", "1", " ", "2", "/", "a", " ", "1">>, ext |-> NUL, hall |-> <<"-", "P", " ", "2", "y", "a">>, basisop_idx |-> 3],
  [number |-> 13, ccp4 |-> 0, hm |-> <<"P", " ", "1", " ", "1", " ", "2", "/", "a">>, ext |-> NUL, hall |-> <<"-", "P", " ", "2", "a">>, basisop_idx |-> 1],
  [number |-> 13, ccp4 |-> 0, hm |-> <<"P", " ", "1", " ", "1", " ", "2", "/", "n">>, ext |-> NUL, hall |-> <<"-", "P", " ", "2", "a", "b">>, basisop_idx |-> 10],
  [number |-> 13, ccp4 |-> 1013, hm |-> <<"P", " ", "1", " ", "1", " ", "2", "/", "b">>, ext |-> NUL, hall |-> <<"-", "P", " ", "2", "b">>, basisop_idx |-> 5],
  [number |-> 13, ccp4 |-> 0, hm |-> <<"P", " ", "2", "/", "b", " ", "1", " ", "1">>, ext |-> NUL, hall |-> <<"-", "P", " ", "2", "x", "b">>, basisop_idx |-> 2],
  [number |-> 13, ccp4 |-> 0, hm |-> <<"P", " ", "2", "/", "n", " ", "1", " ", "1">>, ext |-> NUL, hall |-> <<"-", "P", " ", "2", "x", "b", "c">>, basisop_idx |-> 11],
  [number |-> 13, ccp4 |-> 0, hm |-> <<"P", " ", "2", "/", "c", " ", "1", " ", "1">>, ext |-> NUL, hall |-> <<"-", "P", " ", "2", "x", "c">>, basisop_idx |-> 7],
  [number |-> 14, ccp4 |-> 14, hm |-> <<"P", " ", "1", " ", "2", "1", "/", "c", " ", "1">>, ext |-> NUL, hall |-> <<"-", "P", " ", "2", "y", "b", "c">>, basisop_idx |-> 0],
  [number |-> 14, ccp4 |-> 2014, hm |-> <<"P", " ", "1", " ", "2", "1", "/", "n", " ", "1">>, ext |-> NUL, hall |-> <<"-", "P", " ", "2", "y", "n">>, basisop_idx |-> 9],
  [number |-> 14, ccp4 |-> 3014, hm |-> <<"P", " ", "1", " ", "2", "1", "/", "a", " ", "1">>, ext |-> NUL, hall |-> <<"-", "P", " ", "2", "y", "a", "b">>, basisop_idx |-> 3],
  [number |-> 14, ccp4 |-> 0, hm |-> <<"P", " ", "1", " ", "1", " ", "2", "1", "/", "a">>, ext |-> NUL, hall |-> <<"-", "P", " ", "2", "a", "c">>, basisop_idx |-> 1],
  [number |-> 14, ccp4 |-> 0, hm |-> <<"P", " ", "1", " ", "1", " ", "2", "1", "/", "n">>, ext |-> NUL, hall |-> <<"-", "P", " ", "2", "n">>, basisop_idx |-> 10],
  [number |-> 14, ccp4 |-> 1014, hm |-> <<"P", " ", "1", " ", "1", " ", "2", "1", "/", "b">>, ext |-> NUL, hall |-> <<"-", "P", " ", "2", "b", "c">>, basisop_idx |-> 5],
  [number |-> 14, ccp4 |-> 0, hm |-> <<"P", " ", "2", "1", "/", "b", " ", "1", " ", "1">>, ext |-> NUL, hall |-> <<"-", "P", " ", "2", "x", "a", "b">>, basisop_idx |-> 2],
  [number |-> 14, ccp4 |-> 0, hm |-> <<"P", " ", "2", "1", "/", "n", " ", "1", " ", "1">>, ext |-> NUL, hall |-> <<"-", "P", " ", "2", "x", "n">>, basisop_idx |-> 11],
  [number |-> 14, ccp4 |-> 0, hm |-> <<"P", " ", "2", "1", "/", "c", " ", "1", " ", "1">>, ext |-> NUL, hall |-> <<"-", "P", " ", "2", "x", "a", "c">>, basisop_idx |-> 7],
  [number |-> 15, ccp4 |-> 15, hm |-> <<"C", " ", "1", " ", "2", "/", "c", " ", "1">>, ext |-> NUL, hall |-> <<"-", "C", " ", "2", "y", "c">>, basisop_idx |-> 0],
  [number |-> 15, ccp4 |-> 0, hm |-> <<"A", " ", "1", " ", "2", "/", "n", " ", "1">>, ext |-> NUL, hall |-> <<"-", "A", " ", "2", "y", "a", "b">>, basisop_idx |-> 12],
  [number |-> 15, ccp4 |-> 0, hm |-> <<"I", " ", "1", " ", "2", "/", "a", " ", "1">>, ext |-> NUL, hall |-> <<"-", "I", " ", "2", "y", "a">>, basisop_idx |-> 13],
  [number |-> 15, ccp4 |-> 0, hm |-> <<"A", " ", "1", " ", "2", "/", "a", " ", "1">>, ext |-> NUL, hall |-> <<"-", "A", " ", "2", "y", "a">>, basisop_idx |-> 3],
  [number |-> 15, ccp4 |-> 0, hm |-> <<"C", " ", "1", " ", "2", "/", "n", " ", "1">>, ext |-> NUL, hall |-> <<"-", "C", " ", "2", "y", "a", "c">>, basisop_idx |-> 19],
  [number |-> 15, ccp4 |-> 0, hm |-> <<"I", " ", "1", " ", "2", "/", "c", " ", "1">>, ext |-> NUL, hall |-> <<"-", "I", " ", "2", "y", "c">>, basisop_idx |-> 4],
  [number |-> 15, ccp4 |-> 0, hm |-> <<"A", " ", "1", " ", "1", " ", "2", "/", "a">>, ext |-> NUL, hall |-> <<"-", "A", " ", "2", "a">>, basisop_idx |-> 1],
  [number |-> 15, ccp4 |-> 0, hm |-> <<"B", " ", "1", " ", "1", " ", "2", "/", "n">>, ext |-> NUL, hall |-> <<"-", "B", " ", "2", "a", "b">>, basisop_idx |-> 15],
  [number |-> 15, ccp4 |-> 0, hm |-> <<"I", " ", "1", " ", "1", " ", "2", "/", "b">>, ext |-> NUL, hall |-> <<"-", "I", " ", "2", "b">>, basisop_idx |-> 16],
  [number |-> 15, ccp4 |-> 1015, hm |-> <<"B", " ", "1", " ", "1", " ", "2", "/", "b">>, ext |-> NUL, hall |-> <<"-", "B", " ", "2", "b">>, basisop_idx |-> 5],
  [number |-> 15, ccp4 |-> 0, hm |-> <<"A", " ", "1", " ", "1", " ", "2", "/", "n">>, ext |-> NUL, hall |-> <<"-", "A", " ", "2", "a", "b">>, basisop_idx |-> 10],
  [number |-> 15, ccp4 |-> 0, hm |-> <<"I", " ", "1", " ", "1", " ", "2", "/", "a">>, ext |-> NUL, hall |-> <<"-", "I", " ", "2", "a">>, basisop_idx |-> 6],
  [number |-> 15, ccp4 |-> 0, hm |-> <<"B", " ", "2", "/", "b", " ", "1", " ", "1">>, ext |-> NUL, hall |-> <<"-", "B", " ", "2", "x", "b">>, basisop_idx |-> 2],
  [number |-> 15, ccp4 |-> 0, hm |-> <<"C", " ", "2", "/", "n", " ", "1", " ", "1">>, ext |-> NUL, hall |-> <<"-", "C", " ", "2", "x", "a", "c">>, basisop_idx |-> 17],
  [number |-> 15, ccp4 |-> 0, hm |-> <<"I", " ", "2", "/", "c", " ", "1", " ", "1">>, ext |-> NUL, hall |-> <<"-", "I", " ", "2", "x", "c">>, basisop_idx |-> 18],
  [number |-> 15, ccp4 |-> 0, hm |-> <<"C", " ", "2", "/", "c", " ", "1", " ", "1">>, ext |-> NUL, hall |-> <<"-", "C", " ", "2", "x", "c">>, basisop_idx |-> 7],
  [number |-> 15, ccp4 |-> 0, hm |-> <<"B", " ", "2", "/", "n", " ", "1", " ", "1">>, ext |-> NUL, hall |-> <<"-", "B", " ", "2", "x", "a", "b">>, basisop_idx |-> 11],
  [number |-> 15, ccp4 |-> 0, hm |-> <<"I", " ", "2", "/", "b", " ", "1", " ", "1">>, ext |-> NUL, hall |-> <<"-", "I", " ", "2", "x", "b">>, basisop_idx |-> 8],
  [number |-> 16, ccp4 |-> 16, hm |-> <<"P", " ", "2", " ", "2", " ", "2">>, ext |-> NUL, hall |-> <<"P", " ", "2", " ", "2">>, basisop_idx |-> 0],
  [number |-> 17, ccp4 |-> 17, hm |-> <<"P", " ", "2", " ", "2", " ", "2", "1">>, ext |-> NUL, hall |-> <<"P", " ", "2", "c", " ", "2">>, basisop_idx |-> 0],
  [number |-> 17, ccp4 |-> 1017, hm |-> <<"P", " ", "2", "1", " ", "2", " ", "2">>, ext |-> NUL, hall |-> <<"P", " ", "2", "a", " ", "2", "a">>, basisop_idx |-> 1],
  [number |-> 17, ccp4 |-> 2017, hm |-> <<"P", " ", "2", " ", "2", "1", " ", "2">>, ext |-> NUL, hall |-> <<"P", " ", "2", " ", "2", "b">>, basisop_idx |-> 2],
  [number |-> 18, ccp4 |-> 18, hm |-> <<"P", " ", "2", "1", " ", "2", "1", " ", "2">>, ext |-> NUL, hall |-> <<"P", " ", "2", " ", "2", "a", "b">>, basisop_idx |-> 0],
  [number |-> 18, ccp4 |-> 3018, hm |-> <<"P", " ", "2", " ", "2", "1", " ", "2", "1">>, ext |-> NUL, hall |-> <<"P", " ", "2", "b", "c", " ", "2">>, basisop_idx |-> 1],
  [number |-> 18, ccp4 |-> 2018, hm |-> <<"P", " ", "2", "1", " ", "2", " ", "2", "1">>, ext |-> NUL, hall |-> <<"P", " ", "2", "a", "c", " ", "2", "a", "c">>, basisop_idx |-> 2],
  [number |-> 19, ccp4 |-> 19, hm |-> <<"P", " ", "2", "1", " ", "2", "1", " ", "2", "1">>, ext |-> NUL, hall |-> <<"P", " ", "2", "a", "c", " ", "2", "a", "b">>, basisop_idx |-> 0],
  [number |-> 20, ccp4 |-> 20, hm |-> <<"C", " ", "2", " ", "2", " ", "2", "1">>, ext |-> NUL, hall |-> <<"C", " ", "2", "c", " ", "2">>, basisop_idx |-> 0],
  [number |-> 20, ccp4 |-> 0, hm |-> <<"A", " ", "2", "1", " ", "2", " ", "2">>, ext |-> NUL, hall |-> <<"A", " ", "2", "a", " ", "2", "a">>, basisop_idx |-> 1],
  [number |-> 20, ccp4 |-> 0, hm |-> <<"B", " ", "2", " ", "2", "1", " ", "2">>, ext |-> NUL, hall |-> <<"B", " ", "2", " ", "2", "b">>, basisop_idx |-> 2],
  [number |-> 21, ccp4 |-> 21, hm |-> <<"C", " ", "2", " ", "2", " ", "2">>, ext |-> NUL, hall |-> <<"C", " ", "2", " ", "2">>, basisop_idx |-> 0],
  [number |-> 21, ccp4 |-> 0, hm |-> <<"A", " ", "2", " ", "2", " ", "2">>, ext |-> NUL, hall |-> <<"A", " ", "2", " ", "2">>, basisop_idx |-> 1],
  [number |-> 21, ccp4 |-> 0, hm |-> <<"B", " ", "2", " ", "2", " ", "2">>, ext |-> NUL, hall |-> <<"B", " ", "2", " ", "2">>, basisop_idx |-> 2],
  [number |-> 22, ccp4 |-> 22, hm |-> <<"F", " ", "2", " ", "2", " ", "2">>, ext |-> NUL, hall |-> <<"F", " ", "2", " ", "2">>, basisop_idx |-> 0],
  [number |-> 23, ccp4 |-> 23, hm |-> <<"I", " ", "2", " ", "2", " ", "2">>, ext |-> NUL, hall |-> <<"I", " ", "2", " ", "2">>, basisop_idx |-> 0],
  [number |-> 24, ccp4 |-> 24, hm |-> <<"I", " ", "2", "1", " ", "2", "1", " ", "2", "1">>, ext |-> NUL, hall |-> <<"I", " ", "2", "b", " ", "2", "c">>, basisop_idx |-> 0],
  [number |-> 25, ccp4 |-> 25, hm |-> <<"P", " ", "m", " ", "m", " ", "2">>, ext |-> NUL, hall |-> <<"P", " ", "2", " ", "-", "2">>, basisop_idx |-> 0],
  [number |-> 25, ccp4 |-> 0, hm |-> <<"P", " ", "2", " ", "m", " ", "m">>, ext |-> NUL, hall |-> <<"P", " ", "-", "2", " ", "2">>, basisop_idx |-> 1],
  [number |-> 25, ccp4 |-> 0, hm |-> <<"P", " ", "m", " ", "2", " ", "m">>, ext |-> NUL, hall |-> <<"P", " ", "-", "2", " ", "-", "2">>, basisop_idx |-> 2],
  [number |-> 26, ccp4 |-> 26, hm |-> <<"P", " ", "m", " ", "c", " ", "2", "1">>, ext |-> NUL, hall |-> <<"P", " ", "2", "c", " ", "-", "2">>, basisop_idx |-> 0],
  [number |-> 26, ccp4 |-> 0, hm |-> <<"P", " ", "c", " ", "m", " ", "2", "1">>, ext |-> NUL, hall |-> <<"P", " ", "2", "c", " ", "-", "2", "c">>, basisop_idx |-> 7],
  [number |-> 26, ccp4 |-> 0, hm |-> <<"P", " ", "2", "1", " ", "m", " ", "a">>, ext |-> NUL, hall |-> <<"P", " ", "-", "2", "a", " ", "2", "a">>, basisop_idx |-> 1],
  [number |-> 26, ccp4 |-> 0, hm |-> <<"P", " ", "2", "1", " ", "a", " ", "m">>, ext |-> NUL, hall |-> <<"P", " ", "-", "2", " ", "2", "a">>, basisop_idx |-> 3],
  [number |-> 26, ccp4 |-> 0, hm |-> <<"P", " ", "b", " ", "2", "1", " ", "m">>, ext |-> NUL, hall |-> <<"P", " ", "-", "2", " ", "-", "2", "b">>, basisop_idx |-> 2],
  [number |-> 26, ccp4 |-> 0, hm |-> <<"P", " ", "m", " ", "2", "1", " ", "b">>, ext |-> NUL, hall |-> <<"P", " ", "-", "2", "b", " ", "-", "2">>, basisop_idx |-> 5],
  [number |-> 27, ccp4 |-> 27, hm |-> <<"P", " ", "c", " ", "c", " ", "2">>, ext |-> NUL, hall |-> <<"P", " ", "2", " ", "-", "2", "c">>, basisop_idx |-> 0],
  [number |-> 27, ccp4 |-> 0, hm |-> <<"P", " ", "2", " ", "a", " ", "a">>, ext |-> NUL, hall |-> <<"P", " ", "-", "2", "a", " ", "2">>, basisop_idx |-> 1],
  [number |-> 27, ccp4 |-> 0, hm |-> <<"P", " ", "b", " ", "2", " ", "b">>, ext |-> NUL, hall |-> <<"P", " ", "-", "2", "b", " ", "-", "2", "b">>, basisop_idx |-> 2],
  [number |-> 28, ccp4 |-> 28, hm |-> <<"P", " ", "m", " ", "a", " ", "2">>, ext |-> NUL, hall |-> <<"P", " ", "2", " ", "-", "2", "a">>, basisop_idx |-> 0],
  [number |-> 28, ccp4 |-> 0, hm |-> <<"P", " ", "b", " ", "m", " ", "2">>, ext |-> NUL, hall |-> <<"P", " ", "2", " ", "-", "2", "b">>, basisop_idx |-> 7],
  [number |-> 28, ccp4 |-> 0, hm |-> <<"P", " ", "2", " ", "m", " ", "b">>, ext |-> NUL, hall |-> <<"P", " ", "-", "2", "b", " ", "2">>, basisop_idx |-> 1],
  [number |-> 28, ccp4 |-> 0, hm |-> <<"P", " ", "2", " ", "c", " ", "m">>, ext |-> NUL, hall |-> <<"P", " ", "-", "2", "c", " ", "2">>, basisop_idx |-> 3],
  [number |-> 28, ccp4 |-> 0, hm |-> <<"P", " ", "c", " ", "2", " ", "m">>, ext |-> NUL, hall |-> <<"P", " ", "-", "2", "c", " ", "-", "2", "c">>, basisop_idx |-> 2],
  [number |-> 28, ccp4 |-> 0, hm |-> <<"P", " ", "m", " ", "2", " ", "a">>, ext |-> NUL, hall |-> <<"P", " ", "-", "2", "a", " ", "-", "2", "a">>, basisop_idx |-> 5],
  [number |-> 29, ccp4 |-> 29, hm |-> <<"P", " ", "c", " ", "a", " ", "2", "1">>, ext |-> NUL, hall |-> <<"P", " ", "2", "c", " ", "-", "2", "a", "c">>, basisop_idx |-> 0],
  [number |-> 29, ccp4 |-> 0, hm |-> <<"P", " ", "b", " ", "c", " ", "2", "1">>, ext |-> NUL, hall |-> <<"P", " ", "2", "c", " ", "-", "2", "b">>, basisop_idx |-> 7],
  [number |-> 29, ccp4 |-> 0, hm |-> <<"P", " ", "2", "1", " ", "a", " ", "b">>, ext |-> NUL, hall |-> <<"P", " ", "-", "2", "b", " ", "2", "a">>, basisop_idx |-> 1],
  [number |-> 29, ccp4 |-> 0, hm |-> <<"P", " ", "2", "1", " ", "c", " ", "a">>, ext |-> NUL, hall |-> <<"P", " ", "-", "2", "a", "c", " ", "2", "a">>, basisop_idx |-> 3],
  [number |-> 29, ccp4 |-> 0, hm |-> <<"P", " ", "c", " ", "2", "1", " ", "b">>, ext |-> NUL, hall |-> <<"P", " ", "-", "2", "b", "c", " ", "-", "2", "c">>, basisop_idx |-> 2],
  [number |-> 29, ccp4 |-> 0, hm |-> <<"P", " ", "b", " ", "2", "1", " ", "a">>, ext |-> NUL, hall |-> <<"P", " ", "-", "2", "a", " ", "-", "2", "a", "b">>, basisop_idx |-> 5],
  [number |-> 30, ccp4 |-> 30, hm |-> <<"P", " ", "n", " ", "c", " ", "2">>, ext |-> NUL, hall |-> <<"P", " ", "2", " ", "-", "2", "b", "c">>, basisop_idx |-> 0],
  [number |-> 30, ccp4 |-> 0, hm |-> <<"P", " ", "c", " ", "n", " ", "2">>, ext |-> NUL, hall |-> <<"P", " ", "2", " ", "-", "2", "a", "c">>, basisop_idx |-> 7],
  [number |-> 30, ccp4 |-> 0, hm |-> <<"P", " ", "2", " ", "n", " ", "a">>, ext |-> NUL, hall |-> <<"P", " ", "-", "2", "a", "c", " ", "2">>, basisop_idx |-> 1],
  [number |-> 30, ccp4 |-> 0, hm |-> <<"P", " ", "2", " ", "a", " ", "n">>, ext |-> NUL, hall |-> <<"P", " ", "-", "2", "a", "b", " ", "2">>, basisop_idx |-> 3],
  [number |-> 30, ccp4 |-> 0, hm |-> <<"P", " ", "b", " ", "2", " ", "n">>, ext |-> NUL, hall |-> <<"P", " ", "-", "2", "a", "b", " ", "-", "2", "a", "b">>, basisop_idx |-> 2],
  [number |-> 30, ccp4 |-> 0, hm |-> <<"P", " ", "n", " ", "2", " ", "b">>, ext |-> NUL, hall |-> <<"P", " ", "-", "2", "b", "c", " ", "-", "2", "b", "c">>, basisop_idx |-> 5],
  [number |-> 31, ccp4 |-> 31, hm |-> <<"P", " ", "m", " ", "n", " ", "2", "1">>, ext |-> NUL, hall |-> <<"P", " ", "2", "a", "c", " ", "-", "2">>, basisop_idx |-> 0],
  [number |-> 31, ccp4 |-> 0, hm |-> <<"P", " ", "n", " ", "m", " ", "2", "1">>, ext |-> NUL, hall |-> <<"P", " ", "2", "b", "c", " ", "-", "2", "b", "c">>, basisop_idx |-> 7],
  [number |-> 31, ccp4 |-> 0, hm |-> <<"P", " ", "2", "1", " ", "m", " ", "n">>, ext |-> NUL, hall |-> <<"P", " ", "-", "2", "a", "b", " ", "2", "a", "b">>, basisop_idx |-> 1],
  [number |-> 31, ccp4 |-> 0, hm |-> <<"P", " ", "2", "1", " ", "n", " ", "m">>, ext |-> NUL, hall |-> <<"P", " ", "-", "2", " ", "2", "a", "c">>, basisop_idx |-> 3],
  [number |-> 31, ccp4 |-> 0, hm |-> <<"P", " ", "n", " ", "2", "1", " ", "m">>, ext |-> NUL, hall |-> <<"P", " ", "-", "2", " ", "-", "2", "b", "c">>, basisop_idx |-> 2],
  [number |-> 31, ccp4 |-> 0, hm |-> <<"P", " ", "m", " ", "2", "1", " ", "n">>, ext |-> NUL, hall |-> <<"P", " ", "-", "2", "a", "b", " ", "-", "2">>, basisop_idx |-> 5],
  [number |-> 32, ccp4 |-> 32, hm |-> <<"P", " ", "b", " ", "a", " ", "2">>, ext |-> NUL, hall |-> <<"P", " ", "2", " ", "-", "2", "a", "b">>, basisop_idx |-> 0],
  [number |-> 32, ccp4 |-> 0, hm |-> <<"P", " ", "2", " ", "c", " ", "b">>, ext |-> NUL, hall |-> <<"P", " ", "-", "2", "b", "c", " ", "2">>, basisop_idx |-> 1],
  [number |-> 32, ccp4 |-> 0, hm |-> <<"P", " ", "c", " ", "2", " ", "a">>, ext |-> NUL, hall |-> <<"P", " ", "-", "2", "a", "c", " ", "-", "2", "a", "c">>, basisop_idx |-> 2],
  [number |-> 33, ccp4 |-> 33, hm |-> <<"P", " ", "n", " ", "a", " ", "2", "1">>, ext |-> NUL, hall |-> <<"P", " ", "2", "c", " ", "-", "2", "n">>, basisop_idx |-> 0],
  [number |-> 33, ccp4 |-> 0, hm |-> <<"P", " ", "b", " ", "n", " ", "2", "1">>, ext |-> NUL, hall |-> <<"P", " ", "2", "c", " ", "-", "2", "a", "b">>, basisop_idx |-> 7],
  [number |-> 33, ccp4 |-> 0, hm |-> <<"P", " ", "2", "1", " ", "n", " ", "b">>, ext |-> NUL, hall |-> <<"P", " ", "-", "2", "b", "c", " ", "2", "a">>, basisop_idx |-> 1],
  [number |-> 33, ccp4 |-> 0, hm |-> <<"P", " ", "2", "1", " ", "c", " ", "n">>, ext |-> NUL, hall |-> <<"P", " ", "-", "2", "n", " ", "2", "a">>, basisop_idx |-> 3],
  [number |-> 33, ccp4 |-> 0, hm |-> <<"P", " ", "c", " ", "2", "1", " ", "n">>, ext |-> NUL, hall |-> <<"P", " ", "-", "2", "n", " ", "-", "2", "a", "c">>, basisop_idx |-> 2],
  [number |-> 33, ccp4 |-> 0, hm |-> <<"P", " ", "n", " ", "2", "1", " ", "a">>, ext |-> NUL, hall |-> <<"P", " ", "-", "2", "a", "c", " ", "-", "2", "n">>, basisop_idx |-> 5],
  [number |-> 34, ccp4 |-> 34, hm |-> <<"P", " ", "n", " ", "n", " ", "2">>, ext |-> NUL, hall |-> <<"P", " ", "2", " ", "-", "2", "n">>, basisop_idx |-> 0],
  [number |-> 34, ccp4 |-> 0, hm |-> <<"P", " ", "2", " ", "n", " ", "n">>, ext |-> NUL, hall |-> <<"P", " ", "-", "2", "n", " ", "2">>, basisop_idx |-> 1],
  [number |-> 34, ccp4 |-> 0, hm |-> <<"P", " ", "n", " ", "2", " ", "n">>, ext |-> NUL, hall |-> <<"P", " ", "-", "2", "n", " ", "-", "2", "n">>, basisop_idx |-> 2],
  [number |-> 35, ccp4 |-> 35, hm |-> <<"C", " ", "m", " ", "m", " ", "2">>, ext |-> NUL, hall |-> <<"C", " ", "2", " ", "-", "2">>, basisop_idx |-> 0],
  [number |-> 35, ccp4 |-> 0, hm |-> <<"A", " ", "2", " ", "m", " ", "m">>, ext |-> NUL, hall |-> <<"A", " ", "-", "2", " ", "2">>, basisop_idx |-> 1],
  [number |-> 35, ccp4 |-> 0, hm |-> <<"B", " ", "m", " ", "2", " ", "m">>, ext |-> NUL, hall |-> <<"B", " ", "-", "2", " ", "-", "2">>, basisop_idx |-> 2],
  [number |-> 36, ccp4 |-> 36, hm |-> <<"C", " ", "m", " ", "c", " ", "2", "1">>, ext |-> NUL, hall |-> <<"C", " ", "2", "c", " ", "-", "2">>, basisop_idx |-> 0],
  [number |-> 36, ccp4 |-> 0, hm |-> <<"C", " ", "c", " ", "m", " ", "2", "1">>, ext |-> NUL, hall |-> <<"C", " ", "2", "c", " ", "-", "2", "c">>, basisop_idx |-> 7],
  [number |-> 36, ccp4 |-> 0, hm |-> <<"A", " ", "2", "1", " ", "m", " ", "a">>, ext |-> NUL, hall |-> <<"A", " ", "-", "2", "a", " ", "2", "a">>, basisop_idx |-> 1],
  [number |-> 36, ccp4 |-> 0, hm |-> <<"A", " ", "2", "1", " ", "a", " ", "m">>, ext |-> NUL, hall |-> <<"A", " ", "-", "2", " ", "2", "a">>, basisop_idx |-> 3],
  [number |-> 36, ccp4 |-> 0, hm |-> <<"B", " ", "b", " ", "2", "1", " ", "m">>, ext |-> NUL, hall |-> <<"B", " ", "-", "2", " ", "-", "2", "b">>, basisop_idx |-> 2],
  [number |-> 36, ccp4 |-> 0, hm |-> <<"B", " ", "m", " ", "2", "1", " ", "b">>, ext |-> NUL, hall |-> <<"B", " ", "-", "2", "b", " ", "-", "2">>, basisop_idx |-> 5],
  [number |-> 37, ccp4 |-> 37, hm |-> <<"C", " ", "c", " ", "c", " ", "2">>, ext |-> NUL, hall |-> <<"C", " ", "2", " ", "-", "2", "c">>, basisop_idx |-> 0],
  [number |-> 37, ccp4 |-> 0, hm |-> <<"A", " ", "2", " ", "a", " ", "a">>, ext |-> NUL, hall |-> <<"A", " ", "-", "2", "a", " ", "2">>, basisop_idx |-> 1],
  [number |-> 37, ccp4 |-> 0, hm |-> <<"B", " ", "b", " ", "2", " ", "b">>, ext |-> NUL, hall |-> <<"B", " ", "-", "2", "b", " ", "-", "2", "b">>, basisop_idx |-> 2],
  [number |-> 38, ccp4 |-> 38, hm |-> <<"A", " ", "m", " ", "m", " ", "2">>, ext |-> NUL, hall |-> <<"A", " ", "2", " ", "-", "2">>, basisop_idx |-> 0],
  [number |-> 38, ccp4 |-> 0, hm |-> <<"B", " ", "m", " ", "m", " ", "2">>, ext |-> NUL, hall |-> <<"B", " ", "2", " ", "-", "2">>, basisop_idx |-> 7],
  [number |-> 38, ccp4 |-> 0, hm |-> <<"B", " ", "2", " ", "m", " ", "m">>, ext |-> NUL, hall |-> <<"B", " ", "-", "2", " ", "2">>, basisop_idx |-> 1],
  [number |-> 38, ccp4 |-> 0, hm |-> <<"C", " ", "2", " ", "m", " ", "m">>, ext |-> NUL, hall |-> <<"C", " ", "-", "2", " ", "2">>, basisop_idx |-> 3],
  [number |-> 38, ccp4 |-> 0, hm |-> <<"C", " ", "m", " ", "2", " ", "m">>, ext |-> NUL, hall |-> <<"C", " ", "-", "2", " ", "-", "2">>, basisop_idx |-> 2],
  [number |-> 38, ccp4 |-> 0, hm |-> <<"A", " ", "m", " ", "2", " ", "m">>, ext |-> NUL, hall |-> <<"A", " ", "-", "2", " ", "-", "2">>, basisop_idx |-> 5],
  [number |-> 39, ccp4 |-> 39, hm |-> <<"A", " ", "b", " ", "m", " ", "2">>, ext |-> NUL, hall |-> <<"A", " ", "2", " ", "-", "2", "b">>, basisop_idx |-> 0],
  [number |-> 39, ccp4 |-> 0, hm |-> <<"B", " ", "m", " ", "a", " ", "2">>, ext |-> NUL, hall |-> <<"B", " ", "2", " ", "-", "2", "a">>, basisop_idx |-> 7],
  [number |-> 39, ccp4 |-> 0, hm |-> <<"B", " ", "2", " ", "c", " ", "m">>, ext |-> NUL, hall |-> <<"B", " ", "-", "2", "a", " ", "2">>, basisop_idx |-> 1],
  [number |-> 39, ccp4 |-> 0, hm |-> <<"C", " ", "2", " ", "m", " ", "b">>, ext |-> NUL, hall |-> <<"C", " ", "-", "2", "a", " ", "2">>, basisop_idx |-> 3],
  [number |-> 39, ccp4 |-> 0, hm |-> <<"C", " ", "m", " ", "2", " ", "a">>, ext |-> NUL, hall |-> <<"C", " ", "-", "2", "a", " ", "-", "2", "a">>, basisop_idx |-> 2],
  [number |-> 39, ccp4 |-> 0, hm |-> <<"A", " ", "c", " ", "2", " ", "m">>, ext |-> NUL, hall |-> <<"A", " ", "-", "2", "b", " ", "-", "2", "b">>, basisop_idx |-> 5],
  [number |-> 40, ccp4 |-> 40, hm |-> <<"A", " ", "m", " ", "a", " ", "2">>, ext |-> NUL, hall |-> <<"A", " ", "2", " ", "-", "2", "a">>, basisop_idx |-> 0],
  [number |-> 40, ccp4 |-> 0, hm |-> <<"B", " ", "b", " ", "m", " ", "2">>, ext |-> NUL, hall |-> <<"B", " ", "2", " ", "-", "2", "b">>, basisop_idx |-> 7],
  [number |-> 40, ccp4 |-> 0, hm |-> <<"B", " ", "2", " ", "m", " ", "b">>, ext |-> NUL, hall |-> <<"B", " ", "-", "2", "b", " ", "2">>, basisop_idx |-> 1],
  [number |-> 40, ccp4 |-> 0, hm |-> <<"C", " ", "2", " ", "c", " ", "m">>, ext |-> NUL, hall |-> <<"C", " ", "-", "2", "c", " ", "2">>, basisop_idx |-> 3],
  [number |-> 40, ccp4 |-> 0, hm |-> <<"C", " ", "c", " ", "2", " ", "m">>, ext |-> NUL, hall |-> <<"C", " ", "-", "2", "c", " ", "-", "2", "c">>, basisop_idx |-> 2],
  [number |-> 40, ccp4 |-> 0, hm |-> <<"A", " ", "m", " ", "2", " ", "a">>, ext |-> NUL, hall |-> <<"A", " ", "-", "2", "a", " ", "-", "2", "a">>, basisop_idx |-> 5],
  [number |-> 41, ccp4 |-> 41, hm |-> <<"A", " ", "b", " ", "a", " ", "2">>, ext |-> NUL, hall |-> <<"A", " ", "2", " ", "-", "2", "a", "b">>, basisop_idx |-> 0],
  [number |-> 41, ccp4 |-> 0, hm |-> <<"B", " ", "b", " ", "a", " ", "2">>, ext |-> NUL, hall |-> <<"B", " ", "2", " ", "-", "2", "a", "b">>, basisop_idx |-> 7],
  [number |-> 41, ccp4 |-> 0, hm |-> <<"B", " ", "2", " ", "c", " ", "b">>, ext |-> NUL, hall |-> <<"B", " ", "-", "2", "a", "b", " ", "2">>, basisop_idx |-> 1],
  [number |-> 41, ccp4 |-> 0, hm |-> <<"C", " ", "2", " ", "c", " ", "b">>, ext |-> NUL, hall |-> <<"C", " ", "-", "2", "a", "c", " ", "2">>, basisop_idx |-> 3],
  [number |-> 41, ccp4 |-> 0, hm |-> <<"C", " ", "c", " ", "2", " ", "a">>, ext |-> NUL, hall |-> <<"C", " ", "-", "2", "a", "c", " ", "-", "2", "a", "c">>, basisop_idx |-> 2],
  [number |-> 41, ccp4 |-> 0, hm |-> <<"A", " ", "c", " ", "2", " ", "a">>, ext |-> NUL, hall |-> <<"A", " ", "-", "2", "a", "b", " ", "-", "2", "a", "b">>, basisop_idx |-> 5],
  [number |-> 42, ccp4 |-> 42, hm |-> <<"F", " ", "m", " ", "m", " ", "2">>, ext |-> NUL, hall |-> <<"F", " ", "2", " ", "-", "2">>, basisop_idx |-> 0],
  [number |-> 42, ccp4 |-> 0, hm |-> <<"F", " ", "2", " ", "m", " ", "m">>, ext |-> NUL, hall |-> <<"F", " ", "-", "2", " ", "2">>, basisop_idx |-> 1],
  [number |-> 42, ccp4 |-> 0, hm |-> <<"F", " ", "m", " ", "2", " ", "m">>, ext |-> NUL, hall |-> <<"F", " ", "-", "2", " ", "-", "2">>, basisop_idx |-> 2],
  [number |-> 43, ccp4 |-> 43, hm |-> <<"F", " ", "d", " ", "d", " ", "2">>, ext |-> NUL, hall |-> <<"F", " ", "2", " ", "-", "2", "d">>, basisop_idx |-> 0],
  [number |-> 43, ccp4 |-> 0, hm |-> <<"F", " ", "2", " ", "d", " ", "d">>, ext |-> NUL, hall |-> <<"F", " ", "-", "2", "d", " ", "2">>, basisop_idx |-> 1],
  [number |-> 43, ccp4 |-> 0, hm |-> <<"F", " ", "d", " ", "2", " ", "d">>, ext |-> NUL, hall |-> <<"F", " ", "-", "2", "d", " ", "-", "2", "d">>, basisop_idx |-> 2],
  [number |-> 44, ccp4 |-> 44, hm |-> <<"I", " ", "m", " ", "m", " ", "2">>, ext |-> NUL, hall |-> <<"I", " ", "2", " ", "-", "2">>, basisop_idx |-> 0],
  [number |-> 44, ccp4 |-> 0, hm |-> <<"I", " ", "2", " ", "m", " ", "m">>, ext |-> NUL, hall |-> <<"I", " ", "-", "2", " ", "2">>, basisop_idx |-> 1],
  [number |-> 44, ccp4 |-> 0, hm |-> <<"I", " ", "m", " ", "2", " ", "m">>, ext |-> NUL, hall |-> <<"I", " ", "-", "2", " ", "-", "2">>, basisop_idx |-> 2],
  [number |-> 45, ccp4 |-> 45, hm |-> <<"I", " ", "b", " ", "a", " ", "2">>, ext |-> NUL, hall |-> <<"I", " ", "2", " ", "-", "2", "c">>, basisop_idx |-> 0],
  [number |-> 45, ccp4 |-> 0, hm |-> <<"I", " ", "2", " ", "c", " ", "b">>, ext |-> NUL, hall |-> <<"I", " ", "-", "2", "a", " ", "2">>, basisop_idx |-> 1],
  [number |-> 45, ccp4 |-> 0, hm |-> <<"I", " ", "c", " ", "2", " ", "a">>, ext |-> NUL, hall |-> <<"I", " ", "-", "2", "b", " ", "-", "2", "b">>, basisop_idx |-> 2],
  [number |-> 46, ccp4 |-> 46, hm |-> <<"I", " ", "m", " ", "a", " ", "2">>, ext |-> NUL, hall |-> <<"I", " ", "2", " ", "-", "2", "a">>, basisop_idx |-> 0],
  [number |-> 46, ccp4 |-> 0, hm |-> <<"I", " ", "b", " ", "m", " ", "2">>, ext |-> NUL, hall |-> <<"I", " ", "2", " ", "-", "2", "b">>, basisop_idx |-> 7],
  [number |-> 46, ccp4 |-> 0, hm |-> <<"I", " ", "2", " ", "m", " ", "b">>, ext |-> NUL, hall |-> <<"I", " ", "-", "2", "b", " ", "2">>, basisop_idx |-> 1],
  [number |-> 46, ccp4 |-> 0, hm |-> <<"I", " ", "2", " ", "c", " ", "m">>, ext |-> NUL, hall |-> <<"I", " ", "-", "2", "c", " ", "2">>, basisop_idx |-> 3],
  [number |-> 46, ccp4 |-> 0, hm |-> <<"I", " ", "c", " ", "2", " ", "m">>, ext |-> NUL, hall |-> <<"I", " ", "-", "2", "c", " ", "-", "2", "c">>, basisop_idx |-> 2],
  [number |-> 46, ccp4 |-> 0, hm |-> <<"I", " ", "m", " ", "2", " ", "a">>, ext |-> NUL, hall |-> <<"I", " ", "-", "2", "a", " ", "-", "2", "a">>, basisop_idx |-> 5],
  [number |-> 47, ccp4 |-> 47, hm |-> <<"P", " ", "m", " ", "m", " ", "m">>, ext |-> NUL, hall |-> <<"-", "P", " ", "2", " ", "2">>, basisop_idx |-> 0],
  [number |-> 48, ccp4 |-> 48, hm |-> <<"P", " ", "n", " ", "n", " ", "n">>, ext |-> "1", hall |-> <<"P", " ", "2", " ", "2", " ", "-", "1", "n">>, basisop_idx |-> 20],
  [number |-> 48, ccp4 |-> 0, hm |-> <<"P", " ", "n", " ", "n", " ", "n">>, ext |-> "2", hall |-> <<"-", "P", " ", "2", "a", "b", " ", "2", "b", "c">>, basisop_idx |-> 0],
  [number |-> 49, ccp4 |-> 49, hm |-> <<"P", " ", "c", " ", "c", " ", "m">>, ext |-> NUL, hall |-> <<"-", "P", " ", "2", " ", "2", "c">>, basisop_idx |-> 0],
  [number |-> 49, ccp4 |-> 0, hm |-> <<"P", " ", "m", " ", "a", " ", "a">>, ext |-> NUL, hall |-> <<"-", "P", " ", "2", "a", " ", "2">>, basisop_idx |-> 1],
  [number |-> 49, ccp4 |-> 0, hm |-> <<"P", " ", "b", " ", "m", " ", "b">>, ext |-> NUL, hall |-> <<"-", "P", " ", "2", "b", " ", "2", "b">>, basisop_idx |-> 2],
  [number |-> 50, ccp4 |-> 50, hm |-> <<"P", " ", "b", " ", "a", " ", "n">>, ext |-> "1", hall |-> <<"P", " ", "2", " ", "2", " ", "-", "1", "a", "b">>, basisop_idx |-> 21],
  [number |-> 50, ccp4 |-> 0, hm |-> <<"P", " ", "b", " ", "a", " ", "n">>, ext |-> "2", hall |-> <<"-", "P", " ", "2", "a", "b", " ", "2", "b">>, basisop_idx |-> 0],
  [number |-> 50, ccp4 |-> 0, hm |-> <<"P", " ", "n", " ", "c", " ", "b">>, ext |-> "1", hall |-> <<"P", " ", "2", " ", "2", " ", "-", "1", "b", "c">>, basisop_idx |-> 22],
  [number |-> 50, ccp4 |-> 0, hm |-> <<"P", " ", "n", " ", "c", " ", "b">>, ext |-> "2", hall |-> <<"-", "P", " ", "2", "b", " ", "2", "b", "c">>, basisop_idx |-> 1],
  [number |-> 50, ccp4 |-> 0, hm |-> <<"P", " ", "c", " ", "n", " ", "a">>, ext |-> "1", hall |-> <<"P", " ", "2", " ", "2", " ", "-", "1", "a", "c">>, basisop_idx |-> 23],
  [number |-> 50, ccp4 |-> 0, hm |-> <<"P", " ", "c", " ", "n", " ", "a">>, ext |-> "2", hall |-> <<"-", "P", " ", "2", "a", " ", "2", "c">>, basisop_idx |-> 2],
  [number |-> 51, ccp4 |-> 51, hm |-> <<"P", " ", "m", " ", "m", " ", "a">>, ext |-> NUL, hall |-> <<"-", "P", " ", "2", "a", " ", "2", "a">>, basisop_idx |-> 0],
  [number |-> 51, ccp4 |-> 0, hm |-> <<"P", " ", "m", " ", "m", " ", "b">>, ext |-> NUL, hall |-> <<"-", "P", " ", "2", "b", " ", "2">>, basisop_idx |-> 7],
  [number |-> 51, ccp4 |-> 0, hm |-> <<"P", " ", "b", " ", "m", " ", "m">>, ext |-> NUL, hall |-> <<"-", "P", " ", "2", " ", "2", "b">>, basisop_idx |-> 1],
  [number |-> 51, ccp4 |-> 0, hm |-> <<"P", " ", "c", " ", "m", " ", "m">>, ext |-> NUL, hall |-> <<"-", "P", " ", "2", "c", " ", "2", "c">>, basisop_idx |-> 3],
  [number |-> 51, ccp4 |-> 0, hm |-> <<"P", " ", "m", " ", "c", " ", "m">>, ext |-> NUL, hall |-> <<"-", "P", " ", "2", "c", " ", "2">>, basisop_idx |-> 2],
  [number |-> 51, ccp4 |-> 0, hm |-> <<"P", " ", "m", " ", "a", " ", "m">>, ext |-> NUL, hall |-> <<"-", "P", " ", "2", " ", "2", "a">>, basisop_idx |-> 5],
  [number |-> 52, ccp4 |-> 52, hm |-> <<"P", " ", "n", " ", "n", " ", "a">>, ext |-> NUL, hall |-> <<"-", "P", " ", "2", "a", " ", "2", "b", "c">>, basisop_idx |-> 0],
  [number |-> 52, ccp4 |-> 0, hm |-> <<"P", " ", "n", " ", "n", " ", "b">>, ext |-> NUL, hall |-> <<"-", "P", " ", "2", "b", " ", "2", "n">>, basisop_idx |-> 7],
  [number |-> 52, ccp4 |-> 0, hm |-> <<"P", " ", "b", " ", "n", " ", "n">>, ext |-> NUL, hall |-> <<"-", "P", " ", "2", "n", " ", "2", "b">>, basisop_idx |-> 1],
  [number |-> 52, ccp4 |-> 0, hm |-> <<"P", " ", "c", " ", "n", " ", "n">>, ext |-> NUL, hall |-> <<"-", "P", " ", "2", "a", "b", " ", "2", "c">>, basisop_idx |-> 3],
  [number |-> 52, ccp4 |-> 0, hm |-> <<"P", " ", "n", " ", "c", " ", "n">>, ext |-> NUL, hall |-> <<"-", "P", " ", "2", "a", "b", " ", "2", "n">>, basisop_idx |-> 2],
  [number |-> 52, ccp4 |-> 0, hm |-> <<"P", " ", "n", " ", "a", " ", "n">>, ext |-> NUL, hall |-> <<"-", "P", " ", "2", "n", " ", "2", "b", "c">>, basisop_idx |-> 5],
  [number |-> 53, ccp4 |-> 53, hm |-> <<"P", " ", "m", " ", "n", " ", "a">>, ext |-> NUL, hall |-> <<"-", "P", " ", "2", "a", "c", " ", "2">>, basisop_idx |-> 0],
  [number |-> 53, ccp4 |-> 0, hm |-> <<"P", " ", "n", " ", "m", " ", "b">>, ext |-> NUL, hall |-> <<"-", "P", " ", "2", "b", "c", " ", "2", "b", "c">>, basisop_idx |-> 7],
  [number |-> 53, ccp4 |-> 0, hm |-> <<"P", " ", "b", " ", "m", " ", "n">>, ext |-> NUL, hall |-> <<"-", "P", " ", "2", "a", "b", " ", "2", "a", "b">>, basisop_idx |-> 1],
  [number |-> 53, ccp4 |-> 0, hm |-> <<"P", " ", "c", " ", "n", " ", "m">>, ext |-> NUL, hall |-> <<"-", "P", " ", "2", " ", "2", "a", "c">>, basisop_idx |-> 3],
  [number |-> 53, ccp4 |-> 0, hm |-> <<"P", " ", "n", " ", "c", " ", "m">>, ext |-> NUL, hall |-> <<"-", "P", " ", "2", " ", "2", "b", "c">>, basisop_idx |-> 2],
  [number |-> 53, ccp4 |-> 0, hm |-> <<"P", " ", "m", " ", "a", " ", "n">>, ext |-> NUL, hall |-> <<"-", "P", " ", "2", "a", "b", " ", "2">>, basisop_idx |-> 5],
  [number |-> 54, ccp4 |-> 54, hm |-> <<"P", " ", "c", " ", "c", " ", "a">>, ext |-> NUL, hall |-> <<"-", "P", " ", "2", "a", " ", "2", "a", "c">>, basisop_idx |-> 0],
  [number |-> 54, ccp4 |-> 0, hm |-> <<"P", " ", "c", " ", "c", " ", "b">>, ext |-> NUL, hall |-> <<"-", "P", " ", "2", "b", " ", "2", "c">>, basisop_idx |-> 7],
  [number |-> 54, ccp4 |-> 0, hm |-> <<"P", " ", "b", " ", "a", " ", "a">>, ext |-> NUL, hall |-> <<"-", "P", " ", "2", "a", " ", "2", "b">>, basisop_idx |-> 1],
  [number |-> 54, ccp4 |-> 0, hm |-> <<"P", " ", "c", " ", "a", " ", "a">>, ext |-> NUL, hall |-> <<"-", "P", " ", "2", "a", "c", " ", "2", "c">>, basisop_idx |-> 3],
  [number |-> 54, ccp4 |-> 0, hm |-> <<"P", " ", "b", " ", "c", " ", "b">>, ext |-> NUL, hall |-> <<"-", "P", " ", "2", "b", "c", " ", "2", "b">>, basisop_idx |-> 2],
  [number |-> 54, ccp4 |-> 0, hm |-> <<"P", " ", "b", " ", "a", " ", "b">>, ext |-> NUL, hall |-> <<"-", "P", " ", "2", "b", " ", "2", "a", "b">>, basisop_idx |-> 5],
  [number |-> 55, ccp4 |-> 55, hm |-> <<"P", " ", "b", " ", "a", " ", "m">>, ext |-> NUL, hall |-> <<"-", "P", " ", "2", " ", "2", "a", "b">>, basisop_idx |-> 0],
  [number |-> 55, ccp4 |-> 0, hm |-> <<"P", " ", "m", " ", "c", " ", "b">>, ext |-> NUL, hall |-> <<"-", "P", " ", "2", "b", "c", " ", "2">>, basisop_idx |-> 1],
  [number |-> 55, ccp4 |-> 0, hm |-> <<"P", " ", "c", " ", "m", " ", "a">>, ext |-> NUL, hall |-> <<"-", "P", " ", "2", "a", "c", " ", "2", "a", "c">>, basisop_idx |-> 2],
  [number |-> 56, ccp4 |-> 56, hm |-> <<"P", " ", "c", " ", "c", " ", "n">>, ext |-> NUL, hall |-> <<"-", "P", " ", "2", "a", "b", " ", "2", "a", "c">>, basisop_idx |-> 0],
  [number |-> 56, ccp4 |-> 0, hm |-> <<"P", " ", "n", " ", "a", " ", "a">>, ext |-> NUL, hall |-> <<"-", "P", " ", "2", "a", "c", " ", "2", "b", "c">>, basisop_idx |-> 1],
  [number |-> 56, ccp4 |-> 0, hm |-> <<"P", " ", "b", " ", "n", " ", "b">>, ext |-> NUL, hall |-> <<"-", "P", " ", "2", "b", "c", " ", "2", "a", "b">>, basisop_idx |-> 2],
  [number |-> 57, ccp4 |-> 57, hm |-> <<"P", " ", "b", " ", "c", " ", "m">>, ext |-> NUL, hall |-> <<"-", "P", " ", "2", "c", " ", "2", "b">>, basisop_idx |-> 0],
  [number |-> 57, ccp4 |-> 0, hm |-> <<"P", " ", "c", " ", "a", " ", "m">>, ext |-> NUL, hall |-> <<"-", "P", " ", "2", "c", " ", "2", "a", "c">>, basisop_idx |-> 7],
  [number |-> 57, ccp4 |-> 0, hm |-> <<"P", " ", "m", " ", "c", " ", "a">>, ext |-> NUL, hall |-> <<"-", "P", " ", "2", "a", "c", " ", "2", "a">>, basisop_idx |-> 1],
  [number |-> 57, ccp4 |-> 0, hm |-> <<"P", " ", "m", " ", "a", " ", "b">>, ext |-> NUL, hall |-> <<"-", "P", " ", "2", "b", " ", "2", "a">>, basisop_idx |-> 3],
  [number |-> 57, ccp4 |-> 0, hm |-> <<"P", " ", "b", " ", "m", " ", "a">>, ext |-> NUL, hall |-> <<"-", "P", " ", "2", "a", " ", "2", "a", "b">>, basisop_idx |-> 2],
  [number |-> 57, ccp4 |-> 0, hm |-> <<"P", " ", "c", " ", "m", " ", "b">>, ext |-> NUL, hall |-> <<"-", "P", " ", "2", "b", "c", " ", "2", "c">>, basisop_idx |-> 5],
  [number |-> 58, ccp4 |-> 58, hm |-> <<"P", " ", "n", " ", "n", " ", "m">>, ext |-> NUL, hall |-> <<"-", "P", " ", "2", " ", "2", "n">>, basisop_idx |-> 0],
  [number |-> 58, ccp4 |-> 0, hm |-> <<"P", " ", "m", " ", "n", " ", "n">>, ext |-> NUL, hall |-> <<"-", "P", " ", "2", "n", " ", "2">>, basisop_idx |-> 1],
  [number |-> 58, ccp4 |-> 0, hm |-> <<"P", " ", "n", " ", "m", " ", "n">>, ext |-> NUL, hall |-> <<"-", "P", " ", "2", "n", " ", "2", "n">>, basisop_idx |-> 2],
  [number |-> 59, ccp4 |-> 59, hm |-> <<"P", " ", "m", " ", "m", " ", "n">>, ext |-> "1", hall |-> <<"P", " ", "2", " ", "2", "a", "b", " ", "-", "1", "a", "b">>, basisop_idx |-> 21],
  [number |-> 59, ccp4 |-> 1059, hm |-> <<"P", " ", "m", " ", "m", " ", "n">>, ext |-> "2", hall |-> <<"-", "P", " ", "2", "a", "b", " ", "2", "a">>, basisop_idx |-> 0],
  [number |-> 59, ccp4 |-> 0, hm |-> <<"P", " ", "n", " ", "m", " ", "m">>, ext |-> "1", hall |-> <<"P", " ", "2", "b", "c", " ", "2", " ", "-", "1", "b", "c">>, basisop_idx |-> 22],
  [number |-> 59, ccp4 |-> 0, hm |-> <<"P", " ", "n", " ", "m", " ", "m">>, ext |-> "2", hall |-> <<"-", "P", " ", "2", "c", " ", "2", "b", "c">>, basisop_idx |-> 1],
  [number |-> 59, ccp4 |-> 0, hm |-> <<"P", " ", "m", " ", "n", " ", "m">>, ext |-> "1", hall |-> <<"P", " ", "2", "a", "c", " ", "2", "a", "c", " ", "-", "1", "a", "c">>, basisop_idx |-> 23],
  [number |-> 59, ccp4 |-> 0, hm |-> <<"P", " ", "m", " ", "n", " ", "m">>, ext |-> "2", hall |-> <<"-", "P", " ", "2", "c", " ", "2", "a">>, basisop_idx |-> 2],
  [number |-> 60, ccp4 |-> 60, hm |-> <<"P", " ", "b", " ", "c", " ", "n">>, ext |-> NUL, hall |-> <<"-", "P", " ", "2", "n", " ", "2", "a", "b">>, basisop_idx |-> 0],
  [number |-> 60, ccp4 |-> 0, hm |-> <<"P", " ", "c", " ", "a", " ", "n">>, ext |-> NUL, hall |-> <<"-", "P", " ", "2", "n", " ", "2", "c">>, basisop_idx |-> 7],
  [number |-> 60, ccp4 |-> 0, hm |-> <<"P", " ", "n", " ", "c", " ", "a">>, ext |-> NUL, hall |-> <<"-", "P", " ", "2", "a", " ", "2", "n">>, basisop_idx |-> 1],
  [number |-> 60, ccp4 |-> 0, hm |-> <<"P", " ", "n", " ", "a", " ", "b">>, ext |-> NUL, hall |-> <<"-", "P", " ", "2", "b", "c", " ", "2", "n">>, basisop_idx |-> 3],
  [number |-> 60, ccp4 |-> 0, hm |-> <<"P", " ", "b", " ", "n", " ", "a">>, ext |-> NUL, hall |-> <<"-", "P", " ", "2", "a", "c", " ", "2", "b">>, basisop_idx |-> 2],
  [number |-> 60, ccp4 |-> 0, hm |-> <<"P", " ", "c", " ", "n", " ", "b">>, ext |-> NUL, hall |-> <<"-", "P", " ", "2", "b", " ", "2", "a", "c">>, basisop_idx |-> 5],
  [number |-> 61, ccp4 |-> 61, hm |-> <<"P", " ", "b", " ", "c", " ", "a">>, ext |-> NUL, hall |-> <<"-", "P", " ", "2", "a", "c", " ", "2", "a", "b">>, basisop_idx |-> 0],
  [number |-> 61, ccp4 |-> 0, hm |-> <<"P", " ", "c", " ", "a", " ", "b">>, ext |-> NUL, hall |-> <<"-", "P", " ", "2", "b", "c", " ", "2", "a", "c">>, basisop_idx |-> 3],
  [number |-> 62, ccp4 |-> 62, hm |-> <<"P", " ", "n", " ", "m", " ", "a">>, ext |-> NUL, hall |-> <<"-", "P", " ", "2", "a", "c", " ", "2", "n">>, basisop_idx |-> 0],
  [number |-> 62, ccp4 |-> 0, hm |-> <<"P", " ", "m", " ", "n", " ", "b">>, ext |-> NUL, hall |-> <<"-", "P", " ", "2", "b", "c", " ", "2", "a">>, basisop_idx |-> 7],
  [number |-> 62, ccp4 |-> 0, hm |-> <<"P", " ", "b", " ", "n", " ", "m">>, ext |-> NUL, hall |-> <<"-", "P", " ", "2", "c", " ", "2", "a", "b">>, basisop_idx |-> 1],
  [number |-> 62, ccp4 |-> 0, hm |-> <<"P", " ", "c", " ", "m", " ", "n">>, ext |-> NUL, hall |-> <<"-", "P", " ", "2", "n", " ", "2", "a", "c">>, basisop_idx |-> 3],
  [number |-> 62, ccp4 |-> 0, hm |-> <<"P", " ", "m", " ", "c", " ", "n">>, ext |-> NUL, hall |-> <<"-", "P", " ", "2", "n", " ", "2", "a">>, basisop_idx |-> 2],
  [number |-> 62, ccp4 |-> 0, hm |-> <<"P", " ", "n", " ", "a", " ", "m">>, ext |-> NUL, hall |-> <<"-", "P", " ", "2", "c", " ", "2", "n">>, basisop_idx |-> 5],
  [number |-> 63, ccp4 |-> 63, hm |-> <<"C", " ", "m", " ", "c", " ", "m">>, ext |-> NUL, hall |-> <<"-", "C", " ", "2", "c", " ", "2">>, basisop_idx |-> 0],
  [number |-> 63, ccp4 |-> 0, hm |-> <<"C", " ", "c", " ", "m", " ", "m">>, ext |-> NUL, hall |-> <<"-", "C", " ", "2", "c", " ", "2", "c">>, basisop_idx |-> 7],
  [number |-> 63, ccp4 |-> 0, hm |-> <<"A", " ", "m", " ", "m", " ", "a">>, ext |-> NUL, hall |-> <<"-", "A", " ", "2", "a", " ", "2", "a">>, basisop_idx |-> 1],
  [number |-> 63, ccp4 |-> 0, hm |-> <<"A", " ", "m", " ", "a", " ", "m">>, ext |-> NUL, hall |-> <<"-", "A", " ", "2", " ", "2", "a">>, basisop_idx |-> 3],
  [number |-> 63, ccp4 |-> 0, hm |-> <<"B", " ", "b", " ", "m", " ", "m">>, ext |-> NUL, hall |-> <<"-", "B", " ", "2", " ", "2", "b">>, basisop_idx |-> 2],
  [number |-> 63, ccp4 |-> 0, hm |-> <<"B", " ", "m", " ", "m", " ", "b">>, ext |-> NUL, hall |-> <<"-", "B", " ", "2", "b", " ", "2">>, basisop_idx |-> 5],
  [number |-> 64, ccp4 |-> 64, hm |-> <<"C", " ", "m", " ", "c", " ", "a">>, ext |-> NUL, hall |-> <<"-", "C", " ", "2", "a", "c", " ", "2">>, basisop_idx |-> 0],
  [number |-> 64, ccp4 |-> 0, hm |-> <<"C", " ", "c", " ", "m", " ", "b">>, ext |-> NUL, hall |-> <<"-", "C", " ", "2", "a", "c", " ", "2", "a", "c">>, basisop_idx |-> 7],
  [number |-> 64, ccp4 |-> 0, hm |-> <<"A", " ", "b", " ", "m", " ", "a">>, ext |-> NUL, hall |-> <<"-", "A", " ", "2", "a", "b", " ", "2", "a", "b">>, basisop_idx |-> 1],
  [number |-> 64, ccp4 |-> 0, hm |-> <<"A", " ", "c", " ", "a", " ", "m">>, ext |-> NUL, hall |-> <<"-", "A", " ", "2", " ", "2", "a", "b">>, basisop_idx |-> 3],
  [number |-> 64, ccp4 |-> 0, hm |-> <<"B", " ", "b", " ", "c", " ", "m">>, ext |-> NUL, hall |-> <<"-", "B", " ", "2", " ", "2", "a", "b">>, basisop_idx |-> 2],
  [number |-> 64, ccp4 |-> 0, hm |-> <<"B", " ", "m", " ", "a", " ", "b">>, ext |-> NUL, hall |-> <<"-", "B", " ", "2", "a", "b", " ", "2">>, basisop_idx |-> 5],
  [number |-> 65, ccp4 |-> 65, hm |-> <<"C", " ", "m", " ", "m", " ", "m">>, ext |-> NUL, hall |-> <<"-", "C", " ", "2", " ", "2">>, basisop_idx |-> 0],
  [number |-> 65, ccp4 |-> 0, hm |-> <<"A", " ", "m", " ", "m", " ", "m">>, ext |-> NUL, hall |-> <<"-", "A", " ", "2", " ", "2">>, basisop_idx |-> 1],
  [number |-> 65, ccp4 |-> 0, hm |-> <<"B", " ", "m", " ", "m", " ", "m">>, ext |-> NUL, hall |-> <<"-", "B", " ", "2", " ", "2">>, basisop_idx |-> 2],
  [number |-> 66, ccp4 |-> 66, hm |-> <<"C", " ", "c", " ", "c", " ", "m">>, ext |-> NUL, hall |-> <<"-", "C", " ", "2", " ", "2", "c">>, basisop_idx |-> 0],
  [number |-> 66, ccp4 |-> 0, hm |-> <<"A", " ", "m", " ", "a", " ", "a">>, ext |-> NUL, hall |-> <<"-", "A", " ", "2", "a", " ", "2">>, basisop_idx |-> 1],
  [number |-> 66, ccp4 |-> 0, hm |-> <<"B", " ", "b", " ", "m", " ", "b">>, ext |-> NUL, hall |-> <<"-", "B", " ", "2", "b", " ", "2", "b">>, basisop_idx |-> 2],
  [number |-> 67, ccp4 |-> 67, hm |-> <<"C", " ", "m", " ", "m", " ", "a">>, ext |-> NUL, hall |-> <<"-", "C", " ", "2", "a", " ", "2">>, basisop_idx |-> 0],
  [number |-> 67, ccp4 |-> 0, hm |-> <<"C", " ", "m", " ", "m", " ", "b">>, ext |-> NUL, hall |-> <<"-", "C", " ", "2", "a", " ", "2", "a">>, basisop_idx |-> 14],
  [number |-> 67, ccp4 |-> 0, hm |-> <<"A", " ", "b", " ", "m", " ", "m">>, ext |-> NUL, hall |-> <<"-", "A", " ", "2", "b", " ", "2", "b">>, basisop_idx |-> 1],
  [number |-> 67, ccp4 |-> 0, hm |-> <<"A", " ", "c", " ", "m", " ", "m">>, ext |-> NUL, hall |-> <<"-", "A", " ", "2", " ", "2", "b">>, basisop_idx |-> 3],
  [number |-> 67, ccp4 |-> 0, hm |-> <<"B", " ", "m", " ", "c", " ", "m">>, ext |-> NUL, hall |-> <<"-", "B", " ", "2", " ", "2", "a">>, basisop_idx |-> 2],
  [number |-> 67, ccp4 |-> 0, hm |-> <<"B", " ", "m", " ", "a", " ", "m">>, ext |-> NUL, hall |-> <<"-", "B", " ", "2", "a", " ", "2">>, basisop_idx |-> 5],
  [number |-> 68, ccp4 |-> 68, hm |-> <<"C", " ", "c", " ", "c", " ", "a">>, ext |-> "1", hall |-> <<"C", " ", "2", " ", "2", " ", "-", "1", "a", "c">>, basisop_idx |-> 24],
  [number |-> 68, ccp4 |-> 0, hm |-> <<"C", " ", "c", " ", "c", " ", "a">>, ext |-> "2", hall |-> <<"-", "C", " ", "2", "a", " ", "2", "a", "c">>, basisop_idx |-> 0],
  [number |-> 68, ccp4 |-> 0, hm |-> <<"C", " ", "c", " ", "c", " ", "b">>, ext |-> "1", hall |-> <<"C", " ", "2", " ", "2", " ", "-", "1", "a", "c">>, basisop_idx |-> 24],
  [number |-> 68, ccp4 |-> 0, hm |-> <<"C", " ", "c", " ", "c", " ", "b">>, ext |-> "2", hall |-> <<"-", "C", " ", "2", "a", " ", "2", "c">>, basisop_idx |-> 21],
  [number |-> 68, ccp4 |-> 0, hm |-> <<"A", " ", "b", " ", "a", " ", "a">>, ext |-> "1", hall |-> <<"A", " ", "2", " ", "2", " ", "-", "1", "a", "b">>, basisop_idx |-> 25],
  [number |-> 68, ccp4 |-> 0, hm |-> <<"A", " ", "b", " ", "a", " ", "a">>, ext |-> "2", hall |-> <<"-", "A", " ", "2", "a", " ", "2", "b">>, basisop_idx |-> 1],
  [number |-> 68, ccp4 |-> 0, hm |-> <<"A", " ", "c", " ", "a", " ", "a">>, ext |-> "1", hall |-> <<"A", " ", "2", " ", "2", " ", "-", "1", "a", "b">>, basisop_idx |-> 25],
  [number |-> 68, ccp4 |-> 0, hm |-> <<"A", " ", "c", " ", "a", " ", "a">>, ext |-> "2", hall |-> <<"-", "A", " ", "2", "a", "b", " ", "2", "b">>, basisop_idx |-> 3],
  [number |-> 68, ccp4 |-> 0, hm |-> <<"B", " ", "b", " ", "c", " ", "b">>, ext |-> "1", hall |-> <<"B", " ", "2", " ", "2", " ", "-", "1", "a", "b">>, basisop_idx |-> 26],
  [number |-> 68, ccp4 |-> 0, hm |-> <<"B", " ", "b", " ", "c", " ", "b">>, ext |-> "2", hall |-> <<"-", "B", " ", "2", "a", "b", " ", "2", "b">>, basisop_idx |-> 2],
  [number |-> 68, ccp4 |-> 0, hm |-> <<"B", " ", "b", " ", "a", " ", "b">>, ext |-> "1", hall |-> <<"B", " ", "2", " ", "2", " ", "-", "1", "a", "b">>, basisop_idx |-> 26],
  [number |-> 68, ccp4 |-> 0, hm |-> <<"B", " ", "b", " ", "a", " ", "b">>, ext |-> "2", hall |-> <<"-", "B", " ", "2", "b", " ", "2", "a", "b">>, basisop_idx |-> 5],
  [number |-> 69, ccp4 |-> 69, hm |-> <<"F", " ", "m", " ", "m", " ", "m">>, ext |-> NUL, hall |-> <<"-", "F", " ", "2", " ", "2">>, basisop_idx |-> 0],
  [number |-> 70, ccp4 |-> 70, hm |-> <<"F", " ", "d", " ", "d", " ", "d">>, ext |-> "1", hall |-> <<"F", " ", "2", " ", "2", " ", "-", "1", "d">>, basisop_idx |-> 27],
  [number |-> 70, ccp4 |-> 0, hm |-> <<"F", " ", "d", " ", "d", " ", "d">>, ext |-> "2", hall |-> <<"-", "F", " ", "2", "u", "v", " ", "2", "v", "w">>, basisop_idx |-> 0],
  [number |-> 71, ccp4 |-> 71, hm |-> <<"I", " ", "m", " ", "m", " ", "m">>, ext |-> NUL, hall |-> <<"-", "I", " ", "2", " ", "2">>, basisop_idx |-> 0],
  [number |-> 72, ccp4 |-> 72, hm |-> <<"I", " ", "b", " ", "a", " ", "m">>, ext |-> NUL, hall |-> <<"-", "I", " ", "2", " ", "2", "c">>, basisop_idx |-> 0],
  [number |-> 72, ccp4 |-> 0, hm |-> <<"I", " ", "m", " ", "c", " ", "b">>, ext |-> NUL, hall |-> <<"-", "I", " ", "2", "a", " ", "2">>, basisop_idx |-> 1],
  [number |-> 72, ccp4 |-> 0, hm |-> <<"I", " ", "c", " ", "m", " ", "a">>, ext |-> NUL, hall |-> <<"-", "I", " ", "2", "b", " ", "2", "b">>, basisop_idx |-> 2],
  [number |-> 73, ccp4 |-> 73, hm |-> <<"I", " ", "b", " ", "c", " ", "a">>, ext |-> NUL, hall |-> <<"-", "I", " ", "2", "b", " ", "2", "c">>, basisop_idx |-> 0],
  [number |-> 73, ccp4 |-> 0, hm |-> <<"I", " ", "c", " ", "a", " ", "b">>, ext |-> NUL, hall |-> <<"-", "I", " ", "2", "a", " ", "2", "b">>, basisop_idx |-> 28],
  [number |-> 74, ccp4 |-> 74, hm |-> <<"I", " ", "m", " ", "m", " ", "a">>, ext |-> NUL, hall |-> <<"-", "I", " ", "2", "b", " ", "2">>, basisop_idx |-> 0],
  [number |-> 74, ccp4 |-> 0, hm |-> <<"I", " ", "m", " ", "m", " ", "b">>, ext |-> NUL, hall |-> <<"-", "I", " ", "2", "a", " ", "2", "a">>, basisop_idx |-> 28],
  [number |-> 74, ccp4 |-> 0, hm |-> <<"I", " ", "b", " ", "m", " ", "m">>, ext |-> NUL, hall |-> <<"-", "I", " ", "2", "c", " ", "2", "c">>, basisop_idx |-> 1],
  [number |-> 74, ccp4 |-> 0, hm |-> <<"I", " ", "c", " ", "m", " ", "m">>, ext |-> NUL, hall |-> <<"-", "I", " ", "2", " ", "2", "b">>, basisop_idx |-> 3],
  [number |-> 74, ccp4 |-> 0, hm |-> <<"I", " ", "m", " ", "c", " ", "m">>, ext |-> NUL, hall |-> <<"-", "I", " ", "2", " ", "2", "a">>, basisop_idx |-> 2],
  [number |-> 74, ccp4 |-> 0, hm |-> <<"I", " ", "m", " ", "a", " ", "m">>, ext |-> NUL, hall |-> <<"-", "I", " ", "2", "c", " ", "2">>, basisop_idx |-> 5],
  [number |-> 75, ccp4 |-> 75, hm |-> <<"P", " ", "4">>, ext |-> NUL, hall |-> <<"P", " ", "4">>, basisop_idx |-> 0],
  [number |-> 76, ccp4 |-> 76, hm |-> <<"P", " ", "4", "1">>, ext |-> NUL, hall |-> <<"P", " ", "4", "w">>, basisop_idx |-> 0],
  [number |-> 77, ccp4 |-> 77, hm |-> <<"P", " ", "4", "2">>, ext |-> NUL, hall |-> <<"P", " ", "4", "c">>, basisop_idx |-> 0],
  [number |-> 78, ccp4 |-> 78, hm |-> <<"P", " ", "4", "3">>, ext |-> NUL, hall |-> <<"P", " ", "4", "c", "w">>, basisop_idx |-> 0],
  [number |-> 79, ccp4 |-> 79, hm |-> <<"I", " ", "4">>, ext |-> NUL, hall |-> <<"I", " ", "4">>, basisop_idx |-> 0],
  [number |-> 80, ccp4 |-> 80, hm |-> <<"I", " ", "4", "1">>, ext |-> NUL, hall |-> <<"I", " ", "4", "b", "w">>, basisop_idx |-> 0],
  [number |-> 81, ccp4 |-> 81, hm |-> <<"P", " ", "-", "4">>, ext |-> NUL, hall |-> <<"P", " ", "-", "4">>, basisop_idx |-> 0],
  [number |-> 82, ccp4 |-> 82, hm |-> <<"I", " ", "-", "4">>, ext |-> NUL, hall |-> <<"I", " ", "-", "4">>, basisop_idx |-> 0],
  [number |-> 83, ccp4 |-> 83, hm |-> <<"P", " ", "4", "/", "m">>, ext |-> NUL, hall |-> <<"-", "P", " ", "4">>, basisop_idx |-> 0],
  [number |-> 84, ccp4 |-> 84, hm |-> <<"P", " ", "4", "2", "/", "m">>, ext |-> NUL, hall |-> <<"-", "P", " ", "4", "c">>, basisop_idx |-> 0],
  [number |-> 85, ccp4 |-> 85, hm |-> <<"P", " ", "4", "/", "n">>, ext |-> "1", hall |-> <<"P", " ", "4", "a", "b", " ", "-", "1", "a", "b">>, basisop_idx |-> 29],
  [number |-> 85, ccp4 |-> 0, hm |-> <<"P", " ", "4", "/", "n">>, ext |-> "2", hall |-> <<"-", "P", " ", "4", "a">>, basisop_idx |-> 0],
  [number |-> 86, ccp4 |-> 86, hm |-> <<"P", " ", "4", "2", "/", "n">>, ext |-> "1", hall |-> <<"P", " ", "4", "n", " ", "-", "1", "n">>, basisop_idx |-> 30],
  [number |-> 86, ccp4 |-> 0, hm |-> <<"P", " ", "4", "2", "/", "n">>, ext |-> "2", hall |-> <<"-", "P", " ", "4", "b", "c">>, basisop_idx |-> 0],
  [number |-> 87, ccp4 |-> 87, hm |-> <<"I", " ", "4", "/", "m">>, ext |-> NUL, hall |-> <<"-", "I", " ", "4">>, basisop_idx |-> 0],
  [number |-> 88, ccp4 |-> 88, hm |-> <<"I", " ", "4", "1", "/", "a">>, ext |-> "1", hall |-> <<"I", " ", "4", "b", "w", " ", "-", "1", "b", "w">>, basisop_idx |-> 31],
  [number |-> 88, ccp4 |-> 0, hm |-> <<"I", " ", "4", "1", "/", "a">>, ext |-> "2", hall |-> <<"-", "I", " ", "4", "a", "d">>, basisop_idx |-> 0],
  [number |-> 89, ccp4 |-> 89, hm |-> <<"P", " ", "4", " ", "2", " ", "2">>, ext |-> NUL, hall |-> <<"P", " ", "4", " ", "2">>, basisop_idx |-> 0],
  [number |-> 90, ccp4 |-> 90, hm |-> <<"P", " ", "4", " ", "2", "1", " ", "2">>, ext |-> NUL, hall |-> <<"P", " ", "4", "a", "b", " ", "2", "a", "b">>, basisop_idx |-> 0],
  [number |-> 91, ccp4 |-> 91, hm |-> <<"P", " ", "4", "1", " ", "2", " ", "2">>, ext |-> NUL, hall |-> <<"P", " ", "4", "w", " ", "2", "c">>, basisop_idx |-> 0],
  [number |-> 92, ccp4 |-> 92, hm |-> <<"P", " ", "4", "1", " ", "2", "1", " ", "2">>, ext |-> NUL, hall |-> <<"P", " ", "4", "a", "b", "w", " ", "2", "n", "w">>, basisop_idx |-> 0],
  [number |-> 93, ccp4 |-> 93, hm |-> <<"P", " ", "4", "2", " ", "2", " ", "2">>, ext |-> NUL, hall |-> <<"P", " ", "4", "c", " ", "2">>, basisop_idx |-> 0],
  [number |-> 94, ccp4 |-> 94, hm |-> <<"P", " ", "4", "2", " ", "2", "1", " ", "2">>, ext |-> NUL, hall |-> <<"P", " ", "4", "n", " ", "2", "n">>, basisop_idx |-> 0],
  [number |-> 95, ccp4 |-> 95, hm |-> <<"P", " ", "4", "3", " ", "2", " ", "2">>, ext |-> NUL, hall |-> <<"P", " ", "4", "c", "w", " ", "2", "c">>, basisop_idx |-> 0],
  [number |-> 96, ccp4 |-> 96, hm |-> <<"P", " ", "4", "3", " ", "2", "1", " ", "2">>, ext |-> NUL, hall |-> <<"P", " ", "4", "n", "w", " ", "2", "a", "b", "w">>, basisop_idx |-> 0],
  [number |-> 97, ccp4 |-> 97, hm |-> <<"I", " ", "4", " ", "2", " ", "2">>, ext |-> NUL, hall |-> <<"I", " ", "4", " ", "2">>, basisop_idx |-> 0],
  [number |-> 98, ccp4 |-> 98, hm |-> <<"I", " ", "4", "1", " ", "2", " ", "2">>, ext |-> NUL, hall |-> <<"I", " ", "4", "b", "w", " ", "2", "b", "w">>, basisop_idx |-> 0],
  [number |-> 99, ccp4 |-> 99, hm |-> <<"P", " ", "4", " ", "m", " ", "m">>, ext |-> NUL, hall |-> <<"P", " ", "4", " ", "-", "2">>, basisop_idx |-> 0],
  [number |-> 100, ccp4 |-> 100, hm |-> <<"P", " ", "4", " ", "b", " ", "m">>, ext |-> NUL, hall |-> <<"P", " ", "4", " ", "-", "2", "a", "b">>, basisop_idx |-> 0],
  [number |-> 101, ccp4 |-> 101, hm |-> <<"P", " ", "4", "2", " ", "c", " ", "m">>, ext |-> NUL, hall |-> <<"P", " ", "4", "c", " ", "-", "2", "c">>, basisop_idx |-> 0],
  [number |-> 102, ccp4 |-> 102, hm |-> <<"P", " ", "4", "2", " ", "n", " ", "m">>, ext |-> NUL, hall |-> <<"P", " ", "4", "n", " ", "-", "2", "n">>, basisop_idx |-> 0],
  [number |-> 103, ccp4 |-> 103, hm |-> <<"P", " ", "4", " ", "c", " ", "c">>, ext |-> NUL, hall |-> <<"P", " ", "4", " ", "-", "2", "c">>, basisop_idx |-> 0],
  [number |-> 104, ccp4 |-> 104, hm |-> <<"P", " ", "4", " ", "n", " ", "c">>, ext |-> NUL, hall |-> <<"P", " ", "4", " ", "-", "2", "n">>, basisop_idx |-> 0],
  [number |-> 105, ccp4 |-> 105, hm |-> <<"P", " ", "4", "2", " ", "m", " ", "c">>, ext |-> NUL, hall |-> <<"P", " ", "4", "c", " ", "-", "2">>, basisop_idx |-> 0],
  [number |-> 106, ccp4 |-> 106, hm |-> <<"P", " ", "4", "2", " ", "b", " ", "c">>, ext |-> NUL, hall |-> <<"P", " ", "4", "c", " ", "-", "2", "a", "b">>, basisop_idx |-> 0],
  [number |-> 107, ccp4 |-> 107, hm |-> <<"I", " ", "4", " ", "m", " ", "m">>, ext |-> NUL, hall |-> <<"I", " ", "4", " ", "-", "2">>, basisop_idx |-> 0],
  [number |-> 108, ccp4 |-> 108, hm |-> <<"I", " ", "4", " ", "c", " ", "m">>, ext |-> NUL, hall |-> <<"I", " ", "4", " ", "-", "2", "c">>, basisop_idx |-> 0],
  [number |-> 109, ccp4 |-> 109, hm |-> <<"I", " ", "4", "1", " ", "m", " ", "d">>, ext |-> NUL, hall |-> <<"I", " ", "4", "b", "w", " ", "-", "2">>, basisop_idx |-> 0],
  [number |-> 110, ccp4 |-> 110, hm |-> <<"I", " ", "4", "1", " ", "c", " ", "d">>, ext |-> NUL, hall |-> <<"I", " ", "4", "b", "w", " ", "-", "2", "c">>, basisop_idx |-> 0],
  [number |-> 111, ccp4 |-> 111, hm |-> <<"P", " ", "-", "4", " ", "2", " ", "m">>, ext |-> NUL, hall |-> <<"P", " ", "-", "4", " ", "2">>, basisop_idx |-> 0],
  [number |-> 112, ccp4 |-> 112, hm |-> <<"P", " ", "-", "4", " ", "2", " ", "c">>, ext |-> NUL, hall |-> <<"P", " ", "-", "4", " ", "2", "c">>, basisop_idx |-> 0],
  [number |-> 113, ccp4 |-> 113, hm |-> <<"P", " ", "-", "4", " ", "2", "1", " ", "m">>, ext |-> NUL, hall |-> <<"P", " ", "-", "4", " ", "2", "a", "b">>, basisop_idx |-> 0],
  [number |-> 114, ccp4 |-> 114, hm |-> <<"P", " ", "-", "4", " ", "2", "1", " ", "c">>, ext |-> NUL, hall |-> <<"P", " ", "-", "4", " ", "2", "n">>, basisop_idx |-> 0],
  [number |-> 115, ccp4 |-> 115, hm |-> <<"P", " ", "-", "4", " ", "m", " ", "2">>, ext |-> NUL, hall |-> <<"P", " ", "-", "4", " ", "-", "2">>, basisop_idx |-> 0],
  [number |-> 116, ccp4 |-> 116, hm |-> <<"P", " ", "-", "4", " ", "c", " ", "2">>, ext |-> NUL, hall |-> <<"P", " ", "-", "4", " ", "-", "2", "c">>, basisop_idx |-> 0],
  [number |-> 117, ccp4 |-> 117, hm |-> <<"P", " ", "-", "4", " ", "b", " ", "2">>, ext |-> NUL, hall |-> <<"P", " ", "-", "4", " ", "-", "2", "a", "b">>, basisop_idx |-> 0],
  [number |-> 118, ccp4 |-> 118, hm |-> <<"P", " ", "-", "4", " ", "n", " ", "2">>, ext |-> NUL, hall |-> <<"P", " ", "-", "4", " ", "-", "2", "n">>, basisop_idx |-> 0],
  [number |-> 119, ccp4 |-> 119, hm |-> <<"I", " ", "-", "4", " ", "m", " ", "2">>, ext |-> NUL, hall |-> <<"I", " ", "-", "4", " ", "-", "2">>, basisop_idx |-> 0],
  [number |-> 120, ccp4 |-> 120, hm |-> <<"I", " ", "-", "4", " ", "c", " ", "2">>, ext |-> NUL, hall |-> <<"I", " ", "-", "4", " ", "-", "2", "c">>, basisop_idx |-> 0],
  [number |-> 121, ccp4 |-> 121, hm |-> <<"I", " ", "-", "4", " ", "2", " ", "m">>, ext |-> NUL, hall |-> <<"I", " ", "-", "4", " ", "2">>, basisop_idx |-> 0],
  [number |-> 122, ccp4 |-> 122, hm |-> <<"I", " ", "-", "4", " ", "2", " ", "d">>, ext |-> NUL, hall |-> <<"I", " ", "-", "4", " ", "2", "b", "w">>, basisop_idx |-> 0],
  [number |-> 123, ccp4 |-> 123, hm |-> <<"P", " ", "4", "/", "m", " ", "m", " ", "m">>, ext |-> NUL, hall |-> <<"-", "P", " ", "4", " ", "2">>, basisop_idx |-> 0],
  [number |-> 124, ccp4 |-> 124, hm |-> <<"P", " ", "4", "/", "m", " ", "c", " ", "c">>, ext |-> NUL, hall |-> <<"-", "P", " ", "4", " ", "2", "c">>, basisop_idx |-> 0],
  [number |-> 125, ccp4 |-> 125, hm |-> <<"P", " ", "4", "/", "n", " ", "b", " ", "m">>, ext |-> "1", hall |-> <<"P", " ", "4", " ", "2", " ", "-", "1", "a", "b">>, basisop_idx |-> 21],
  [number |-> 125, ccp4 |-> 0, hm |-> <<"P", " ", "4", "/", "n", " ", "b", " ", "m">>, ext |-> "2", hall |-> <<"-", "P", " ", "4", "a", " ", "2", "b">>, basisop_idx |-> 0],
  [number |-> 126, ccp4 |-> 126, hm |-> <<"P", " ", "4", "/", "n", " ", "n", " ", "c">>, ext |-> "1", hall |-> <<"P", " ", "4", " ", "2", " ", "-", "1", "n">>, basisop_idx |-> 20],
  [number |-> 126, ccp4 |-> 0, hm |-> <<"P", " ", "4", "/", "n", " ", "n", " ", "c">>, ext |-> "2", hall |-> <<"-", "P", " ", "4", "a", " ", "2", "b", "c">>, basisop_idx |-> 0],
  [number |-> 127, ccp4 |-> 127, hm |-> <<"P", " ", "4", "/", "m", " ", "b", " ", "m">>, ext |-> NUL, hall |-> <<"-", "P", " ", "4", " ", "2", "a", "b">>, basisop_idx |-> 0],
  [number |-> 128, ccp4 |-> 128, hm |-> <<"P", " ", "4", "/", "m", " ", "n", " ", "c">>, ext |-> NUL, hall |-> <<"-", "P", " ", "4", " ", "2", "n">>, basisop_idx |-> 0],
  [number |-> 129, ccp4 |-> 129, hm |-> <<"P", " ", "4", "/", "n", " ", "m", " ", "m">>, ext |-> "1", hall |-> <<"P", " ", "4", "a", "b", " ", "2", "a", "b", " ", "-", "1", "a", "b">>, basisop_idx |-> 29],
  [number |-> 129, ccp4 |-> 0, hm |-> <<"P", " ", "4", "/", "n", " ", "m", " ", "m">>, ext |-> "2", hall |-> <<"-", "P", " ", "4", "a", " ", "2", "a">>, basisop_idx |-> 0],
  [number |-> 130, ccp4 |-> 130, hm |-> <<"P", " ", "4", "/", "n", " ", "c", " ", "c">>, ext |-> "1", hall |-> <<"P", " ", "4", "a", "b", " ", "2", "n", " ", "-", "1", "a", "b">>, basisop_idx |-> 29],
  [number |-> 130, ccp4 |-> 0, hm |-> <<"P", " ", "4", "/", "n", " ", "c", " ", "c">>, ext |-> "2", hall |-> <<"-", "P", " ", "4", "a", " ", "2", "a", "c">>, basisop_idx |-> 0],
  [number |-> 131, ccp4 |-> 131, hm |-> <<"P", " ", "4", "2", "/", "m", " ", "m", " ", "c">>, ext |-> NUL, hall |-> <<"-", "P", " ", "4", "c", " ", "2">>, basisop_idx |-> 0],
  [number |-> 132, ccp4 |-> 132, hm |-> <<"P", " ", "4", "2", "/", "m", " ", "c", " ", "m">>, ext |-> NUL, hall |-> <<"-", "P", " ", "4", "c", " ", "2", "c">>, basisop_idx |-> 0],
  [number |-> 133, ccp4 |-> 133, hm |-> <<"P", " ", "4", "2", "/", "n", " ", "b", " ", "c">>, ext |-> "1", hall |-> <<"P", " ", "4", "n", " ", "2", "c", " ", "-", "1", "n">>, basisop_idx |-> 32],
  [number |-> 133, ccp4 |-> 0, hm |-> <<"P", " ", "4", "2", "/", "n", " ", "b", " ", "c">>, ext |-> "2", hall |-> <<"-", "P", " ", "4", "a", "c", " ", "2", "b">>, basisop_idx |-> 0],
  [number |-> 134, ccp4 |-> 134, hm |-> <<"P", " ", "4", "2", "/", "n", " ", "n", " ", "m">>, ext |-> "1", hall |-> <<"P", " ", "4", "n", " ", "2", " ", "-", "1", "n">>, basisop_idx |-> 33],
  [number |-> 134, ccp4 |-> 0, hm |-> <<"P", " ", "4", "2", "/", "n", " ", "n", " ", "m">>, ext |-> "2", hall |-> <<"-", "P", " ", "4", "a", "c", " ", "2", "b", "c">>, basisop_idx |-> 0],
  [number |-> 135, ccp4 |-> 135, hm |-> <<"P", " ", "4", "2", "/", "m", " ", "b", " ", "c">>, ext |-> NUL, hall |-> <<"-", "P", " ", "4", "c", " ", "2", "a", "b">>, basisop_idx |-> 0],
  [number |-> 136, ccp4 |-> 136, hm |-> <<"P", " ", "4", "2", "/", "m", " ", "n", " ", "m">>, ext |-> NUL, hall |-> <<"-", "P", " ", "4", "n", " ", "2", "n">>, basisop_idx |-> 0],
  [number |-> 137, ccp4 |-> 137, hm |-> <<"P", " ", "4", "2", "/", "n", " ", "m", " ", "c">>, ext |-> "1", hall |-> <<"P", " ", "4", "n", " ", "2", "n", " ", "-", "1", "n">>, basisop_idx |-> 32],
  [number |-> 137, ccp4 |-> 0, hm |-> <<"P", " ", "4", "2", "/", "n", " ", "m", " ", "c">>, ext |-> "2", hall |-> <<"-", "P", " ", "4", "a", "c", " ", "2", "a">>, basisop_idx |-> 0],
  [number |-> 138, ccp4 |-> 138, hm |-> <<"P", " ", "4", "2", "/", "n", " ", "c", " ", "m">>, ext |-> "1", hall |-> <<"P", " ", "4", "n", " ", "2", "a", "b", " ", "-", "1", "n">>, basisop_idx |-> 33],
  [number |-> 138, ccp4 |-> 0, hm |-> <<"P", " ", "4", "2", "/", "n", " ", "c", " ", "m">>, ext |-> "2", hall |-> <<"-", "P", " ", "4", "a", "c", " ", "2", "a", "c">>, basisop_idx |-> 0],
  [number |-> 139, ccp4 |-> 139, hm |-> <<"I", " ", "4", "/", "m", " ", "m", " ", "m">>, ext |-> NUL, hall |-> <<"-", "I", " ", "4", " ", "2">>, basisop_idx |-> 0],
  [number |-> 140, ccp4 |-> 140, hm |-> <<"I", " ", "4", "/", "m", " ", "c", " ", "m">>, ext |-> NUL, hall |-> <<"-", "I", " ", "4", " ", "2", "c">>, basisop_idx |-> 0],
  [number |-> 141, ccp4 |-> 141, hm |-> <<"I", " ", "4", "1", "/", "a", " ", "m", " ", "d">>, ext |-> "1", hall |-> <<"I", " ", "4", "b", "w", " ", "2", "b", "w", " ", "-", "1", "b", "w">>, basisop_idx |-> 34],
  [number |-> 141, ccp4 |-> 0, hm |-> <<"I", " ", "4", "1", "/", "a", " ", "m", " ", "d">>, ext |-> "2", hall |-> <<"-", "I", " ", "4", "b", "d", " ", "2">>, basisop_idx |-> 0],
  [number |-> 142, ccp4 |-> 142, hm |-> <<"I", " ", "4", "1", "/", "a", " ", "c", " ", "d">>, ext |-> "1", hall |-> <<"I", " ", "4", "b", "w", " ", "2", "a", "w", " ", "-", "1", "b", "w">>, basisop_idx |-> 35],
  [number |-> 142, ccp4 |-> 0, hm |-> <<"I", " ", "4", "1", "/", "a", " ", "c", " ", "d">>, ext |-> "2", hall |-> <<"-", "I", " ", "4", "b", "d", " ", "2", "c">>, basisop_idx |-> 0],
  [number |-> 143, ccp4 |-> 143, hm |-> <<"P", " ", "3">>, ext |-> NUL, hall |-> <<"P", " ", "3">>, basisop_idx |-> 0],
  [number |-> 144, ccp4 |-> 144, hm |-> <<"P", " ", "3", "1">>, ext |-> NUL, hall |-> <<"P", " ", "3", "1">>, basisop_idx |-> 0],
  [number |-> 145, ccp4 |-> 145, hm |-> <<"P", " ", "3", "2">>, ext |-> NUL, hall |-> <<"P", " ", "3", "2">>, basisop_idx |-> 0],
  [number |-> 146, ccp4 |-> 146, hm |-> <<"R", " ", "3">>, ext |-> "H", hall |-> <<"R", " ", "3">>, basisop_idx |-> 0],
  [number |-> 146, ccp4 |-> 1146, hm |-> <<"R", " ", "3">>, ext |-> "R", hall |-> <<"P", " ", "3", "*">>, basisop_idx |-> 36],
  [number |-> 147, ccp4 |-> 147, hm |-> <<"P", " ", "-", "3">>, ext |-> NUL, hall |-> <<"-", "P", " ", "3">>, basisop_idx |-> 0],
  [number |-> 148, ccp4 |-> 148, hm |-> <<"R", " ", "-", "3">>, ext |-> "H", hall |-> <<"-", "R", " ", "3">>, basisop_idx |-> 0],
  [number |-> 148, ccp4 |-> 1148, hm |-> <<"R", " ", "-", "3">>, ext |-> "R", hall |-> <<"-", "P", " ", "3", "*">>, basisop_idx |-> 36],
  [number |-> 149, ccp4 |-> 149, hm |-> <<"P", " ", "3", " ", "1", " ", "2">>, ext |-> NUL, hall |-> <<"P", " ", "3", " ", "2">>, basisop_idx |-> 0],
  [number |-> 150, ccp4 |-> 150, hm |-> <<"P", " ", "3", " ", "2", " ", "1">>, ext |-> NUL, hall |-> <<"P", " ", "3", " ", "2", "\"">>, basisop_idx |-> 0],
  [number |-> 151, ccp4 |-> 151, hm |-> <<"P", " ", "3", "1", " ", "1", " ", "2">>, ext |-> NUL, hall |-> <<"P", " ", "3", "1", " ", "2", " ", "(", "0", " ", "0", " ", "4", ")">>, basisop_idx |-> 0],
  [number |-> 152, ccp4 |-> 152, hm |-> <<"P", " ", "3", "1", " ", "2", " ", "1">>, ext |-> NUL, hall |-> <<"P", " ", "3", "1", " ", "2", "\"">>, basisop_idx |-> 0],
  [number |-> 153, ccp4 |-> 153, hm |-> <<"P", " ", "3", "2", " ", "1", " ", "2">>, ext |-> NUL, hall |-> <<"P", " ", "3", "2", " ", "2", " ", "(", "0", " ", "0", " ", "2", ")">>, basisop_idx |-> 0],
  [number |-> 154, ccp4 |-> 154, hm |-> <<"P", " ", "3", "2", " ", "2", " ", "1">>, ext |-> NUL, hall |-> <<"P", " ", "3", "2", " ", "2", "\"">>, basisop_idx |-> 0],
  [number |-> 155, ccp4 |-> 155, hm |-> <<"R", " ", "3", " ", "2">>, ext |-> "H", hall |-> <<"R", " ", "3", " ", "2", "\"">>, basisop_idx |-> 0],
  [number |-> 155, ccp4 |-> 1155, hm |-> <<"R", " ", "3", " ", "2">>, ext |-> "R", hall |-> <<"P", " ", "3", "*", " ", "2">>, basisop_idx |-> 36],
  [number |-> 156, ccp4 |-> 156, hm |-> <<"P", " ", "3", " ", "m", " ", "1">>, ext |-> NUL, hall |-> <<"P", " ", "3", " ", "-", "2", "\"">>, basisop_idx |-> 0],
  [number |-> 157, ccp4 |-> 157, hm |-> <<"P", " ", "3", " ", "1", " ", "m">>, ext |-> NUL, hall |-> <<"P", " ", "3", " ", "-", "2">>, basisop_idx |-> 0],
  [number |-> 158, ccp4 |-> 158, hm |-> <<"P", " ", "3", " ", "c", " ", "1">>, ext |-> NUL, hall |-> <<"P", " ", "3", " ", "-", "2", "\"", "c">>, basisop_idx |-> 0],
  [number |-> 159, ccp4 |-> 159, hm |-> <<"P", " ", "3", " ", "1", " ", "c">>, ext |-> NUL, hall |-> <<"P", " ", "3", " ", "-", "2", "c">>, basisop_idx |-> 0],
  [number |-> 160, ccp4 |-> 160, hm |-> <<"R", " ", "3", " ", "m">>, ext |-> "H", hall |-> <<"R", " ", "3", " ", "-", "2", "\"">>, basisop_idx |-> 0],
  [number |-> 160, ccp4 |-> 1160, hm |-> <<"R", " ", "3", " ", "m">>, ext |-> "R", hall |-> <<"P", " ", "3", "*", " ", "-", "2">>, basisop_idx |-> 36],
  [number |-> 161, ccp4 |-> 161, hm |-> <<"R", " ", "3", " ", "c">>, ext |-> "H", hall |-> <<"R", " ", "3", " ", "-", "2", "\"", "c">>, basisop_idx |-> 0],
  [number |-> 161, ccp4 |-> 1161, hm |-> <<"R", " ", "3", " ", "c">>, ext |-> "R", hall |-> <<"P", " ", "3", "*", " ", "-", "2", "n">>, basisop_idx |-> 36],
  [number |-> 162, ccp4 |-> 162, hm |-> <<"P", " ", "-", "3", " ", "1", " ", "m">>, ext |-> NUL, hall |-> <<"-", "P", " ", "3", " ", "2">>, basisop_idx |-> 0],
  [number |-> 163, ccp4 |-> 163, hm |-> <<"P", " ", "-", "3", " ", "1", " ", "c">>, ext |-> NUL, hall |-> <<"-", "P", " ", "3", " ", "2", "c">>, basisop_idx |-> 0],
  [number |-> 164, ccp4 |-> 164, hm |-> <<"P", " ", "-", "3", " ", "m", " ", "1">>, ext |-> NUL, hall |-> <<"-", "P", " ", "3", " ", "2", "\"">>, basisop_idx |-> 0],
  [number |-> 165, ccp4 |-> 165, hm |-> <<"P", " ", "-", "3", " ", "c", " ", "1">>, ext |-> NUL, hall |-> <<"-", "P", " ", "3", " ", "2", "\"", "c">>, basisop_idx |-> 0],
  [number |-> 166, ccp4 |-> 166, hm |-> <<"R", " ", "-", "3", " ", "m">>, ext |-> "H", hall |-> <<"-", "R", " ", "3", " ", "2", "\"">>, basisop_idx |-> 0],
  [number |-> 166, ccp4 |-> 1166, hm |-> <<"R", " ", "-", "3", " ", "m">>, ext |-> "R", hall |-> <<"-", "P", " ", "3", "*", " ", "2">>, basisop_idx |-> 36],
  [number |-> 167, ccp4 |-> 167, hm |-> <<"R", " ", "-", "3", " ", "c">>, ext |-> "H", hall |-> <<"-", "R", " ", "3", " ", "2", "\"", "c">>, basisop_idx |-> 0],
  [number |-> 167, ccp4 |-> 1167, hm |-> <<"R", " ", "-", "3", " ", "c">>, ext |-> "R", hall |-> <<"-", "P", " ", "3", "*", " ", "2", "n">>, basisop_idx |-> 36],
  [number |-> 168, ccp4 |-> 168, hm |-> <<"P", " ", "6">>, ext |-> NUL, hall |-> <<"P", " ", "6">>, basisop_idx |-> 0],
  [number |-> 169, ccp4 |-> 169, hm |-> <<"P", " ", "6", "1">>, ext |-> NUL, hall |-> <<"P", " ", "6", "1">>, basisop_idx |-> 0],
  [number |-> 170, ccp4 |-> 170, hm |-> <<"P", " ", "6", "5">>, ext |-> NUL, hall |-> <<"P", " ", "6", "5">>, basisop_idx |-> 0],
  [number |-> 171, ccp4 |-> 171, hm |-> <<"P", " ", "6", "2">>, ext |-> NUL, hall |-> <<"P", " ", "6", "2">>, basisop_idx |-> 0],
  [number |-> 172, ccp4 |-> 172, hm |-> <<"P", " ", "6", "4">>, ext |-> NUL, hall |-> <<"P", " ", "6", "4">>, basisop_idx |-> 0],
  [number |-> 173, ccp4 |-> 173, hm |-> <<"P", " ", "6", "3">>, ext |-> NUL, hall |-> <<"P", " ", "6", "c">>, basisop_idx |-> 0],
  [number |-> 174, ccp4 |-> 174, hm |-> <<"P", " ", "-", "6">>, ext |-> NUL, hall |-> <<"P", " ", "-", "6">>, basisop_idx |-> 0],
  [number |-> 175, ccp4 |-> 175, hm |-> <<"P", " ", "6", "/", "m">>, ext |-> NUL, hall |-> <<"-", "P", " ", "6">>, basisop_idx |-> 0],
  [number |-> 176, ccp4 |-> 176, hm |-> <<"P", " ", "6", "3", "/", "m">>, ext |-> NUL, hall |-> <<"-", "P", " ", "6", "c">>, basisop_idx |-> 0],
  [number |-> 177, ccp4 |-> 177, hm |-> <<"P", " ", "6", " ", "2", " ", "2">>, ext |-> NUL, hall |-> <<"P", " ", "6", " ", "2">>, basisop_idx |-> 0],
  [number |-> 178, ccp4 |-> 178, hm |-> <<"P", " ", "6", "1", " ", "2", " ", "2">>, ext |-> NUL, hall |-> <<"P", " ", "6", "1", " ", "2", " ", "(", "0", " ", "0", " ", "5", ")">>, basisop_idx |-> 0],
  [number |-> 179, ccp4 |-> 179, hm |-> <<"P", " ", "6", "5", " ", "2", " ", "2">>, ext |-> NUL, hall |-> <<"P", " ", "6", "5", " ", "2", " ", "(", "0", " ", "0", " ", "1", ")">>, basisop_idx |-> 0],
  [number |-> 180, ccp4 |-> 180, hm |-> <<"P", " ", "6", "2", " ", "2", " ", "2">>, ext |-> NUL, hall |-> <<"P", " ", "6", "2", " ", "2", " ", "(", "0", " ", "0", " ", "4", ")">>, basisop_idx |-> 0],
  [number |-> 181, ccp4 |-> 181, hm |-> <<"P", " ", "6", "4", " ", "2", " ", "2">>, ext |-> NUL, hall |-> <<"P", " ", "6", "4", " ", "2", " ", "(", "0", " ", "0", " ", "2", ")">>, basisop_idx |-> 0],
  [number |-> 182, ccp4 |-> 182, hm |-> <<"P", " ", "6", "3", " ", "2", " ", "2">>, ext |-> NUL, hall |-> <<"P", " ", "6", "c", " ", "2", "c">>, basisop_idx |-> 0],
  [number |-> 183, ccp4 |-> 183, hm |-> <<"P", " ", "6", " ", "m", " ", "m">>, ext |-> NUL, hall |-> <<"P", " ", "6", " ", "-", "2">>, basisop_idx |-> 0],
  [number |-> 184, ccp4 |-> 184, hm |-> <<"P", " ", "6", " ", "c", " ", "c">>, ext |-> NUL, hall |-> <<"P", " ", "6", " ", "-", "2", "c">>, basisop_idx |-> 0],
  [number |-> 185, ccp4 |-> 185, hm |-> <<"P", " ", "6", "3", " ", "c", " ", "m">>, ext |-> NUL, hall |-> <<"P", " ", "6", "c", " ", "-", "2">>, basisop_idx |-> 0],
  [number |-> 186, ccp4 |-> 186, hm |-> <<"P", " ", "6", "3", " ", "m", " ", "c">>, ext |-> NUL, hall |-> <<"P", " ", "6", "c", " ", "-", "2", "c">>, basisop_idx |-> 0],
  [number |-> 187, ccp4 |-> 187, hm |-> <<"P", " ", "-", "6", " ", "m", " ", "2">>, ext |-> NUL, hall |-> <<"P", " ", "-", "6", " ", "2">>, basisop_idx |-> 0],
  [number |-> 188, ccp4 |-> 188, hm |-> <<"P", " ", "-", "6", " ", "c", " ", "2">>, ext |-> NUL, hall |-> <<"P", " ", "-", "6", "c", " ", "2">>, basisop_idx |-> 0],
  [number |-> 189, ccp4 |-> 189, hm |-> <<"P", " ", "-", "6", " ", "2", " ", "m">>, ext |-> NUL, hall |-> <<"P", " ", "-", "6", " ", "-", "2">>, basisop_idx |-> 0],
  [number |-> 190, ccp4 |-> 190, hm |-> <<"P", " ", "-", "6", " ", "2", " ", "c">>, ext |-> NUL, hall |-> <<"P", " ", "-", "6", "c", " ", "-", "2", "c">>, basisop_idx |-> 0],
  [number |-> 191, ccp4 |-> 191, hm |-> <<"P", " ", "6", "/", "m", " ", "m", " ", "m">>, ext |-> NUL, hall |-> <<"-", "P", " ", "6", " ", "2">>, basisop_idx |-> 0],
  [number |-> 192, ccp4 |-> 192, hm |-> <<"P", " ", "6", "/", "m", " ", "c", " ", "c">>, ext |-> NUL, hall |-> <<"-", "P", " ", "6", " ", "2", "c">>, basisop_idx |-> 0],
  [number |-> 193, ccp4 |-> 193, hm |-> <<"P", " ", "6", "3", "/", "m", " ", "c", " ", "m">>, ext |-> NUL, hall |-> <<"-", "P", " ", "6", "c", " ", "2">>, basisop_idx |-> 0],
  [number |-> 194, ccp4 |-> 194, hm |-> <<"P", " ", "6", "3", "/", "m", " ", "m", " ", "c">>, ext |-> NUL, hall |-> <<"-", "P", " ", "6", "c", " ", "2", "c">>, basisop_idx |-> 0],
  [number |-> 195, ccp4 |-> 195, hm |-> <<"P", " ", "2", " ", "3">>, ext |-> NUL, hall |-> <<"P", " ", "2", " ", "2", " ", "3">>, basisop_idx |-> 0],
  [number |-> 196, ccp4 |-> 196, hm |-> <<"F", " ", "2", " ", "3">>, ext |-> NUL, hall |-> <<"F", " ", "2", " ", "2", " ", "3">>, basisop_idx |-> 0],
  [number |-> 197, ccp4 |-> 197, hm |-> <<"I", " ", "2", " ", "3">>, ext |-> NUL, hall |-> <<"I", " ", "2", " ", "2", " ", "3">>, basisop_idx |-> 0],
  [number |-> 198, ccp4 |-> 198, hm |-> <<"P", " ", "2", "1", " ", "3">>, ext |-> NUL, hall |-> <<"P", " ", "2", "a", "c", " ", "2", "a", "b", " ", "3">>, basisop_idx |-> 0],
  [number |-> 199, ccp4 |-> 199, hm |-> <<"I", " ", "2", "1", " ", "3">>, ext |-> NUL, hall |-> <<"I", " ", "2", "b", " ", "2", "c", " ", "3">>, basisop_idx |-> 0],
  [number |-> 200, ccp4 |-> 200, hm |-> <<"P", " ", "m", " ", "-", "3">>, ext |-> NUL, hall |-> <<"-", "P", " ", "2", " ", "2", " ", "3">>, basisop_idx |-> 0],
  [number |-> 201, ccp4 |-> 201, hm |-> <<"P", " ", "n", " ", "-", "3">>, ext |-> "1", hall |-> <<"P", " ", "2", " ", "2", " ", "3", " ", "-", "1", "n">>, basisop_idx |-> 20],
  [number |-> 201, ccp4 |-> 0, hm |-> <<"P", " ", "n", " ", "-", "3">>, ext |-> "2", hall |-> <<"-", "P", " ", "2", "a", "b", " ", "2", "b", "c", " ", "3">>, basisop_idx |-> 0],
  [number |-> 202, ccp4 |-> 202, hm |-> <<"F", " ", "m", " ", "-", "3">>, ext |-> NUL, hall |-> <<"-", "F", " ", "2", " ", "2", " ", "3">>, basisop_idx |-> 0],
  [number |-> 203, ccp4 |-> 203, hm |-> <<"F", " ", "d", " ", "-", "3">>, ext |-> "1", hall |-> <<"F", " ", "2", " ", "2", " ", "3", " ", "-", "1", "d">>, basisop_idx |-> 27],
  [number |-> 203, ccp4 |-> 0, hm |-> <<"F", " ", "d", " ", "-", "3">>, ext |-> "2", hall |-> <<"-", "F", " ", "2", "u", "v", " ", "2", "v", "w", " ", "3">>, basisop_idx |-> 0],
  [number |-> 204, ccp4 |-> 204, hm |-> <<"I", " ", "m", " ", "-", "3">>, ext |-> NUL, hall |-> <<"-", "I", " ", "2", " ", "2", " ", "3">>, basisop_idx |-> 0],
  [number |-> 205, ccp4 |-> 205, hm |-> <<"P", " ", "a", " ", "-", "3">>, ext |-> NUL, hall |-> <<"-", "P", " ", "2", "a", "c", " ", "2", "a", "b", " ", "3">>, basisop_idx |-> 0],
  [number |-> 206, ccp4 |-> 206, hm |-> <<"I", " ", "a", " ", "-", "3">>, ext |-> NUL, hall |-> <<"-", "I", " ", "2", "b", " ", "2", "c", " ", "3">>, basisop_idx |-> 0],
  [number |-> 207, ccp4 |-> 207, hm |-> <<"P", " ", "4", " ", "3", " ", "2">>, ext |-> NUL, hall |-> <<"P", " ", "4", " ", "2", " ", "3">>, basisop_idx |-> 0],
  [number |-> 208, ccp4 |-> 208, hm |-> <<"P", " ", "4", "2", " ", "3", " ", "2">>, ext |-> NUL, hall |-> <<"P", " ", "4", "n", " ", "2", " ", "3">>, basisop_idx |-> 0],
  [number |-> 209, ccp4 |-> 209, hm |-> <<"F", " ", "4", " ", "3", " ", "2">>, ext |-> NUL, hall |-> <<"F", " ", "4", " ", "2", " ", "3">>, basisop_idx |-> 0],
  [number |-> 210, ccp4 |-> 210, hm |-> <<"F", " ", "4", "1", " ", "3", " ", "2">>, ext |-> NUL, hall |-> <<"F", " ", "4", "d", " ", "2", " ", "3">>, basisop_idx |-> 0],
  [number |-> 211, ccp4 |-> 211, hm |-> <<"I", " ", "4", " ", "3", " ", "2">>, ext |-> NUL, hall |-> <<"I", " ", "4", " ", "2", " ", "3">>, basisop_idx |-> 0],
  [number |-> 212, ccp4 |-> 212, hm |-> <<"P", " ", "4", "3", " ", "3", " ", "2">>, ext |-> NUL, hall |-> <<"P", " ", "4", "a", "c", "d", " ", "2", "a", "b", " ", "3">>, basisop_idx |-> 0],
  [number |-> 213, ccp4 |-> 213, hm |-> <<"P", " ", "4", "1", " ", "3", " ", "2">>, ext |-> NUL, hall |-> <<"P", " ", "4", "b", "d", " ", "2", "a", "b", " ", "3">>, basisop_idx |-> 0],
  [number |-> 214, ccp4 |-> 214, hm |-> <<"I", " ", "4", "1", " ", "3", " ", "2">>, ext |-> NUL, hall |-> <<"I", " ", "4", "b", "d", " ", "2", "c", " ", "3">>, basisop_idx |-> 0],
  [number |-> 215, ccp4 |-> 215, hm |-> <<"P", " ", "-", "4", " ", "3", " ", "m">>, ext |-> NUL, hall |-> <<"P", " ", "-", "4", " ", "2", " ", "3">>, basisop_idx |-> 0],
  [number |-> 216, ccp4 |-> 216, hm |-> <<"F", " ", "-", "4", " ", "3", " ", "m">>, ext |-> NUL, hall |-> <<"F", " ", "-", "4", " ", "2", " ", "3">>, basisop_idx |-> 0],
  [number |-> 217, ccp4 |-> 217, hm |-> <<"I", " ", "-", "4", " ", "3", " ", "m">>, ext |-> NUL, hall |-> <<"I", " ", "-", "4", " ", "2", " ", "3">>, basisop_idx |-> 0],
  [number |-> 218, ccp4 |-> 218, hm |-> <<"P", " ", "-", "4", " ", "3", " ", "n">>, ext |-> NUL, hall |-> <<"P", " ", "-", "4", "n", " ", "2", " ", "3">>, basisop_idx |-> 0],
  [number |-> 219, ccp4 |-> 219, hm |-> <<"F", " ", "-", "4", " ", "3", " ", "c">>, ext |-> NUL, hall |-> <<"F", " ", "-", "4", "a", " ", "2", " ", "3">>, basisop_idx |-> 0],
  [number |-> 220, ccp4 |-> 220, hm |-> <<"I", " ", "-", "4", " ", "3", " ", "d">>, ext |-> NUL, hall |-> <<"I", " ", "-", "4", "b", "d", " ", "2", "c", " ", "3">>, basisop_idx |-> 0],
  [number |-> 221, ccp4 |-> 221, hm |-> <<"P", " ", "m", " ", "-", "3", " ", "m">>, ext |-> NUL, hall |-> <<"-", "P", " ", "4", " ", "2", " ", "3">>, basisop_idx |-> 0],
  [number |-> 222, ccp4 |-> 222, hm |-> <<"P", " ", "n", " ", "-", "3", " ", "n">>, ext |-> "1", hall |-> <<"P", " ", "4", " ", "2", " ", "3", " ", "-", "1", "n">>, basisop_idx |-> 20],
  [number |-> 222, ccp4 |-> 0, hm |-> <<"P", " ", "n", " ", "-", "3", " ", "n">>, ext |-> "2", hall |-> <<"-", "P", " ", "4", "a", " ", "2", "b", "c", " ", "3">>, basisop_idx |-> 0],
  [number |-> 223, ccp4 |-> 223, hm |-> <<"P", " ", "m", " ", "-", "3", " ", "n">>, ext |-> NUL, hall |-> <<"-", "P", " ", "4", "n", " ", "2", " ", "3">>, basisop_idx |-> 0],
  [number |-> 224, ccp4 |-> 224, hm |-> <<"P", " ", "n", " ", "-", "3", " ", "m">>, ext |-> "1", hall |-> <<"P", " ", "4", "n", " ", "2", " ", "3", " ", "-", "1", "n">>, basisop_idx |-> 30],
  [number |-> 224, ccp4 |-> 0, hm |-> <<"P", " ", "n", " ", "-", "3", " ", "m">>, ext |-> "2", hall |-> <<"-", "P", " ", "4", "b", "c", " ", "2", "b", "c", " ", "3">>, basisop_idx |-> 0],
  [number |-> 225, ccp4 |-> 225, hm |-> <<"F", " ", "m", " ", "-", "3", " ", "m">>, ext |-> NUL, hall |-> <<"-", "F", " ", "4", " ", "2", " ", "3">>, basisop_idx |-> 0],
  [number |-> 226, ccp4 |-> 226, hm |-> <<"F", " ", "m", " ", "-", "3", " ", "c">>, ext |-> NUL, hall |-> <<"-", "F", " ", "4", "a", " ", "2", " ", "3">>, basisop_idx |-> 0],
  [number |-> 227, ccp4 |-> 227, hm |-> <<"F", " ", "d", " ", "-", "3", " ", "m">>, ext |-> "1", hall |-> <<"F", " ", "4", "d", " ", "2", " ", "3", " ", "-", "1", "d">>, basisop_idx |-> 27],
  [number |-> 227, ccp4 |-> 0, hm |-> <<"F", " ", "d", " ", "-", "3", " ", "m">>, ext |-> "2", hall |-> <<"-", "F", " ", "4", "v", "w", " ", "2", "v", "w", " ", "3">>, basisop_idx |-> 0],
  [number |-> 228, ccp4 |-> 228, hm |-> <<"F", " ", "d", " ", "-", "3", " ", "c">>, ext |-> "1", hall |-> <<"F", " ", "4", "d", " ", "2", " ", "3", " ", "-", "1", "a", "d">>, basisop_idx |-> 37],
  [number |-> 228, ccp4 |-> 0, hm |-> <<"F", " ", "d", " ", "-", "3", " ", "c">>, ext |-> "2", hall |-> <<"-", "F", " ", "4", "u", "d", " ", "2", "v", "w", " ", "3">>, basisop_idx |-> 0],
  [number |-> 229, ccp4 |-> 229, hm |-> <<"I", " ", "m", " ", "-", "3", " ", "m">>, ext |-> NUL, hall |-> <<"-", "I", " ", "4", " ", "2", " ", "3">>, basisop_idx |-> 0],
  [number |-> 230, ccp4 |-> 230, hm |-> <<"I", " ", "a", " ", "-", "3", " ", "d">>, ext |-> NUL, hall |-> <<"-", "I", " ", "4", "b", "d", " ", "2", "c", " ", "3">>, basisop_idx |-> 0],
  [number |-> 5, ccp4 |-> 5005, hm |-> <<"I", " ", "1", " ", "2", "1", " ", "1">>, ext |-> NUL, hall |-> <<"I", " ", "2", "y", "b">>, basisop_idx |-> 38],
  [number |-> 5, ccp4 |-> 3005, hm |-> <<"C", " ", "1", " ", "2", "1", " ", "1">>, ext |-> NUL, hall |-> <<"C", " ", "2", "y", "b">>, basisop_idx |-> 14],
  [number |-> 18, ccp4 |-> 1018, hm |-> <<"P", " ", "2", "1", "2", "1", "2", "(", "a", ")">>, ext |-> NUL, hall |-> <<"P", " ", "2", "a", "b", " ", "2", "a">>, basisop_idx |-> 14],
  [number |-> 20, ccp4 |-> 1020, hm |-> <<"C", " ", "2", " ", "2", " ", "2", "1", "a", ")">>, ext |-> NUL, hall |-> <<"C", " ", "2", "a", "c", " ", "2">>, basisop_idx |-> 39],
  [number |-> 21, ccp4 |-> 1021, hm |-> <<"C", " ", "2", " ", "2", " ", "2", "a">>, ext |-> NUL, hall |-> <<"C", " ", "2", "a", "b", " ", "2", "b">>, basisop_idx |-> 14],
  [number |-> 22, ccp4 |-> 1022, hm |-> <<"F", " ", "2", " ", "2", " ", "2", "a">>, ext |-> NUL, hall |-> <<"F", " ", "2", " ", "2", "c">>, basisop_idx |-> 40],
  [number |-> 23, ccp4 |-> 1023, hm |-> <<"I", " ", "2", " ", "2", " ", "2", "a">>, ext |-> NUL, hall |-> <<"I", " ", "2", "a", "b", " ", "2", "b", "c">>, basisop_idx |-> 33],
  [number |-> 94, ccp4 |-> 1094, hm |-> <<"P", " ", "4", "2", " ", "2", "1", " ", "2", "a">>, ext |-> NUL, hall |-> <<"P", " ", "4", "b", "c", " ", "2", "a">>, basisop_idx |-> 20],
  [number |-> 197, ccp4 |-> 1197, hm |-> <<"I", " ", "2", " ", "3", "a">>, ext |-> NUL, hall |-> <<"I", " ", "2", "a", "b", " ", "2", "b", "c", " ", "3">>, basisop_idx |-> 30],
  [number |-> 1, ccp4 |-> 0, hm |-> <<"A", " ", "1">>, ext |-> NUL, hall |-> <<"A", " ", "1">>, basisop_idx |-> 41],
  [number |-> 1, ccp4 |-> 0, hm |-> <<"B", " ", "1">>, ext |-> NUL, hall |-> <<"B", " ", "1">>, basisop_idx |-> 42],
  [number |-> 1, ccp4 |-> 0, hm |-> <<"C", " ", "1">>, ext |-> NUL, hall |-> <<"C", " ", "1">>, basisop_idx |-> 43],
  [number |-> 1, ccp4 |-> 0, hm |-> <<"F", " ", "1">>, ext |-> NUL, hall |-> <<"F", " ", "1">>, basisop_idx |-> 44],
  [number |-> 1, ccp4 |-> 0, hm |-> <<"I", " ", "1">>, ext |-> NUL, hall |-> <<"I", " ", "1">>, basisop_idx |-> 45],
  [number |-> 2, ccp4 |-> 0, hm |-> <<"A", " ", "-", "1">>, ext |-> NUL, hall |-> <<"-", "A", " ", "1">>, basisop_idx |-> 41],
  [number |-> 2, ccp4 |-> 0, hm |-> <<"B", " ", "-", "1">>, ext |-> NUL, hall |-> <<"-", "B", " ", "1">>, basisop_idx |-> 42],
  [number |-> 2, ccp4 |-> 0, hm |-> <<"C", " ", "-", "1">>, ext |-> NUL, hall |-> <<"-", "C", " ", "1">>, basisop_idx |-> 43],
  [number |-> 2, ccp4 |-> 0, hm |-> <<"F", " ", "-", "1">>, ext |-> NUL, hall |-> <<"-", "F", " ", "1">>, basisop_idx |-> 44],
  [number |-> 2, ccp4 |-> 0, hm |-> <<"I", " ", "-", "1">>, ext |-> NUL, hall |-> <<"-", "I", " ", "1">>, basisop_idx |-> 45],
  [number |-> 4, ccp4 |-> 0, hm |-> <<"C", " ", "1", " ", "1", " ", "2", "1">>, ext |-> NUL, hall |-> <<"C", " ", "2", "c">>, basisop_idx |-> 46],
  [number |-> 12, ccp4 |-> 0, hm |-> <<"F", " ", "1", " ", "2", "/", "m", " ", "1">>, ext |-> NUL, hall |-> <<"-", "F", " ", "2", "y">>, basisop_idx |-> 47],
  [number |-> 64, ccp4 |-> 0, hm |-> <<"A", " ", "b", " ", "a", " ", "m">>, ext |-> NUL, hall |-> <<"-", "A", " ", "2", " ", "2", "a", "b">>, basisop_idx |-> 3],
  [number |-> 117, ccp4 |-> 0, hm |-> <<"C", " ", "-", "4", " ", "2", " ", "b">>, ext |-> NUL, hall |-> <<"C", " ", "-", "4", " ", "2", "y", "a">>, basisop_idx |-> 48],
  [number |-> 139, ccp4 |-> 0, hm |-> <<"F", " ", "4", "/", "m", " ", "m", " ", "m">>, ext |-> NUL, hall |-> <<"-", "F", " ", "4", " ", "2">>, basisop_idx |-> 48]
>>

NumEntries == Len(SpaceGroupTable)

TableHalls == {SpaceGroupTable[i].hall : i \in 1..NumEntries}

----------------------------------------------------------------------------
(* Lookups in the table.  A const SpaceGroup* is 1 + the position in main,  *)
(* 0 for nullptr.                                                          *)

\* spacegroup_tables::alt_names; pos counts the entries of main from 0
alt_names == <<
  [hm |-> <<"A", " ", "e", " ", "m", " ", "2">>, ext |-> NUL, pos |-> 190],
  [hm |-> <<"B", " ", "m", " ", "e", " ", "2">>, ext |-> NUL, pos |-> 191],
  [hm |-> <<"B", " ", "2", " ", "e", " ", "m">>, ext |-> NUL, pos |-> 192],
  [hm |-> <<"C", " ", "2", " ", "m", " ", "e">>, ext |-> NUL, pos |-> 193],
  [hm |-> <<"C", " ", "m", " ", "2", " ", "e">>, ext |-> NUL, pos |-> 194],
  [hm |-> <<"A", " ", "e", " ", "2", " ", "m">>, ext |-> NUL, pos |-> 195],
  [hm |-> <<"A", " ", "e", " ", "a", " ", "2">>, ext |-> NUL, pos |-> 202],
  [hm |-> <<"B", " ", "b", " ", "e", " ", "2">>, ext |-> NUL, pos |-> 203],
  [hm |-> <<"B", " ", "2", " ", "e", " ", "b">>, ext |-> NUL, pos |-> 204],
  [hm |-> <<"C", " ", "2", " ", "c", " ", "e">>, ext |-> NUL, pos |-> 205],
  [hm |-> <<"C", " ", "c", " ", "2", " ", "e">>, ext |-> NUL, pos |-> 206],
  [hm |-> <<"A", " ", "e", " ", "2", " ", "a">>, ext |-> NUL, pos |-> 207],
  [hm |-> <<"C", " ", "m", " ", "c", " ", "e">>, ext |-> NUL, pos |-> 303],
  [hm |-> <<"C", " ", "c", " ", "m", " ", "e">>, ext |-> NUL, pos |-> 304],
  [hm |-> <<"A", " ", "e", " ", "m", " ", "a">>, ext |-> NUL, pos |-> 305],
  [hm |-> <<"A", " ", "e", " ", "a", " ", "m">>, ext |-> NUL, pos |-> 306],
  [hm |-> <<"B", " ", "b", " ", "e", " ", "m">>, ext |-> NUL, pos |-> 307],
  [hm |-> <<"B", " ", "m", " ", "e", " ", "b">>, ext |-> NUL, pos |-> 308],
  [hm |-> <<"C", " ", "m", " ", "m", " ", "e">>, ext |-> NUL, pos |-> 315],
  [hm |-> <<"A", " ", "e", " ", "m", " ", "m">>, ext |-> NUL, pos |-> 317],
  [hm |-> <<"B", " ", "m", " ", "e", " ", "m">>, ext |-> NUL, pos |-> 319],
  [hm |-> <<"C", " ", "c", " ", "c", " ", "e">>, ext |-> "1", pos |-> 321],
  [hm |-> <<"C", " ", "c", " ", "c", " ", "e">>, ext |-> "2", pos |-> 322],
  [hm |-> <<"A", " ", "e", " ", "a", " ", "a">>, ext |-> "1", pos |-> 325],
  [hm |-> <<"A", " ", "e", " ", "a", " ", "a">>, ext |-> "2", pos |-> 326],
  [hm |-> <<"B", " ", "b", " ", "e", " ", "b">>, ext |-> "1", pos |-> 329],
  [hm |-> <<"B", " ", "b", " ", "e", " ", "b">>, ext |-> "2", pos |-> 330]
>>
\* throw std::invalid_argument(msg + arg)
InvalidArgument(m, a) ==
  [ok |-> FALSE, val |-> 0, msg |-> m, arg |-> a, type |-> "std::invalid_argument"]

\* the first of the positions in hits, 0 when there is none: what a loop over the
\* table returns that leaves at the first entry passing its test
FirstOf(hits) == IF hits = {} THEN 0 ELSE CHOOSE i \in hits : \A j \in hits : i <= j

\* SpaceGroup::operations
operations(sg) == symops_from_hall(sg.hall).val

\* sg.operations() of every entry of main, in table order
TableOperations ==
  LET Expanded(main) == [i \in 1..Len(main) |-> operations(main[i])]
  IN Expanded(SpaceGroupTable)

\* the basisops array of get_basisop
basisops == <<
  <<"x", ",", "y", ",", "z">>,
  <<"z", ",", "x", ",", "y">>,
  <<"y", ",", "z", ",", "x">>,
  <<"z", ",", "y", ",", "-", "x">>,
  <<"x", ",", "y", ",", "-", "x", "+", "z">>,
  <<"-", "x", ",", "z", ",", "y">>,
  <<"-", "x", "+", "z", ",", "x", ",", "y">>,
  <<"y", ",", "-", "x", ",", "z">>,
  <<"y", ",", "-", "x", "+", "z", ",", "x">>,
  <<"x", "-", "z", ",", "y", ",", "z">>,
  <<"z", ",", "x", "-", "z", ",", "y">>,
  <<"y", ",", "z", ",", "x", "-", "z">>,
  <<"z", ",", "y", ",", "-", "x", "+", "z">>,
  <<"x", "+", "z", ",", "y", ",", "-", "x">>,
  <<"x", "+", "1", "/", "4", ",", "y", "+", "1", "/", "4", ",", "z">>,
  <<"-", "x", "+", "z", ",", "z", ",", "y">>,
  <<"-", "x", ",", "x", "+", "z", ",", "y">>,
  <<"y", ",", "-", "x", "+", "z", ",", "z">>,
  <<"y", ",", "-", "x", ",", "x", "+", "z">>,
  <<"x", "+", "1", "/", "4", ",", "y", "-", "1", "/", "4", ",", "z">>,
  <<"x", "-", "1", "/", "4", ",", "y", "-", "1", "/", "4", ",", "z", "-", "1", "/", "4">>,
  <<"x", "-", "1", "/", "4", ",", "y", "-", "1", "/", "4", ",", "z">>,
  <<"z", ",", "x", "-", "1", "/", "4", ",", "y", "-", "1", "/", "4">>,
  <<"y", "-", "1", "/", "4", ",", "z", ",", "x", "-", "1", "/", "4">>,
  <<"x", "-", "1", "/", "2", ",", "y", "-", "1", "/", "4", ",", "z", "+", "1", "/", "4">>,
  <<"z", "+", "1", "/", "4", ",", "x", "-", "1", "/", "2", ",", "y", "-", "1", "/", "4">>,
  <<"y", "-", "1", "/", "4", ",", "z", "+", "1", "/", "4", ",", "x", "-", "1", "/", "2">>,
  <<"x", "+", "1", "/", "8", ",", "y", "+", "1", "/", "8", ",", "z", "+", "1", "/", "8">>,
  <<"x", "+", "1", "/", "4", ",", "y", "-", "1", "/", "4", ",", "z", "+", "1", "/", "4">>,
  <<"x", "-", "1", "/", "4", ",", "y", "+", "1", "/", "4", ",", "z">>,
  <<"x", "+", "1", "/", "4", ",", "y", "+", "1", "/", "4", ",", "z", "+", "1", "/", "4">>,
  <<"x", ",", "y", "+", "1", "/", "4", ",", "z", "+", "1", "/", "8">>,
  <<"x", "-", "1", "/", "4", ",", "y", "+", "1", "/", "4", ",", "z", "+", "1", "/", "4">>,
  <<"x", "-", "1", "/", "4", ",", "y", "+", "1", "/", "4", ",", "z", "-", "1", "/", "4">>,
  <<"x", "-", "1", "/", "2", ",", "y", "+", "1", "/", "4", ",", "z", "+", "1", "/", "8">>,
  <<"x", "-", "1", "/", "2", ",", "y", "+", "1", "/", "4", ",", "z", "-", "3", "/", "8">>,
  <<"-", "y", "+", "z", ",", "x", "+", "z", ",", "-", "x", "+", "y", "+", "z">>,
  <<"x", "-", "1", "/", "8", ",", "y", "-", "1", "/", "8", ",", "z", "-", "1", "/", "8">>,
  <<"x", "+", "1", "/", "4", ",", "y", "+", "1", "/", "4", ",", "-", "x", "+", "z", "-", "1", "/", "4">>,
  <<"x", "+", "1", "/", "4", ",", "y", ",", "z">>,
  <<"x", ",", "y", ",", "z", "+", "1", "/", "4">>,
  <<"-", "x", ",", "-", "1", "/", "2", "*", "y", "+", "1", "/", "2", "*", "z", ",", "1", "/", "2", "*", "y", "+", "1", "/", "2", "*", "z">>,
  <<"-", "1", "/", "2", "*", "x", "+", "1", "/", "2", "*", "z", ",", "-", "y", ",", "1", "/", "2", "*", "x", "+", "1", "/", "2", "*", "z">>,
  <<"1", "/", "2", "*", "x", "+", "1", "/", "2", "*", "y", ",", "1", "/", "2", "*", "x", "-", "1", "/", "2", "*", "y", ",", "-", "z">>,
  <<"1", "/", "2", "*", "y", "+", "1", "/", "2", "*", "z", ",", "1", "/", "2", "*", "x", "+", "1", "/", "2", "*", "z", ",", "1", "/", "2", "*", "x", "+", "1", "/", "2", "*", "y">>,
  <<"-", "1", "/", "2", "*", "x", "+", "1", "/", "2", "*", "y", "+", "1", "/", "2", "*", "z", ",", "1", "/", "2", "*", "x", "-", "1", "/", "2", "*", "y", "+", "1", "/", "2", "*", "z", ",", "1", "/", "2", "*", "x", "+", "1", "/", "2", "*", "y", "-", "1", "/", "2", "*", "z">>,
  <<"-", "1", "/", "2", "*", "x", "+", "z", ",", "1", "/", "2", "*", "x", ",", "y">>,
  <<"x", "-", "1", "/", "2", "*", "z", ",", "y", ",", "1", "/", "2", "*", "z">>,
  <<"1", "/", "2", "*", "x", "+", "1", "/", "2", "*", "y", ",", "-", "1", "/", "2", "*", "x", "+", "1", "/", "2", "*", "y", ",", "z">>
>>

get_basisop(basisop_idx) == basisops[basisop_idx + 1]

\* an is_reference_setting that every entry passes
is_reference_setting_always(sg) == TRUE

\* SpaceGroup::is_reference_setting
is_reference_setting(sg) == sg.basisop_idx = 0

\* SpaceGroup::short_name
short_name(sg) ==
  LET len == Len(sg.hm)
      Spaceless(s) == SelectSeq(s, LAMBDA c : c # " ")
      Renamed(s) == Spaceless(IF sg.ext = "H" THEN <<"H">> \o Tail(s) ELSE s)
  IN Renamed(IF len > 6 /\ sg.hm[3] = "1" /\ sg.hm[len - 1] = " " /\ sg.hm[len] = "1"
               THEN <<sg.hm[1]>> \o SubSeq(sg.hm, 5, len - 2)
               ELSE sg.hm)

\* find_spacegroup_by_number over the table main
find_spacegroup_by_number(ccp4, main) ==
  FirstOf({i \in 1..Len(main) : main[i].ccp4 = ccp4})

\* get_spacegroup_reference_setting over the table main
get_spacegroup_reference_setting(n, main) ==
  LET Found(i) ==
        IF i # 0 THEN Ok(i)
        ELSE InvalidArgument("Invalid space-group number: ", to_string(n))
  IN Found(FirstOf({i \in 1..Len(main) :
                      main[i].number = n /\ is_reference_setting(main[i])}))

RECURSIVE name_loop(_, _, _, _)
\* while (*a == *b && *b != '\0') of find_spacegroup_by_name: [a, b] after the loop
name_loop(name, a, hm, b) ==
  IF At(name, a) = At(hm, b) /\ At(hm, b) # NUL
    THEN name_loop(name, skip_blank(name, a + 1), hm, skip_blank(hm, b + 1))
    ELSE [a |-> a, b |-> b]

\* the test of the name from p on against a full symbol hm with extension ext
name_matches(name, p, hm, ext) ==
  LET Compared(e) ==
        /\ At(hm, e.b) = NUL
        /\ \/ At(name, e.a) = NUL
           \/ At(name, e.a) = ":" /\ At(name, skip_blank(name, e.a + 1)) = ext
  IN Compared(name_loop(name, skip_blank(name, p + 1), hm, skip_blank(hm, 4)))

RECURSIVE short_name_loop(_, _, _, _)
\* while (*a == *b && *b != ' ') of the monoclinic short names
short_name_loop(name, a, hm, b) ==
  IF At(name, a) = At(hm, b) /\ At(hm, b) # " "
    THEN short_name_loop(name, skip_blank(name, a + 1), hm, b + 1)
    ELSE [a |-> a, b |-> b]

\* the test of the name from p on against the middle part of L 1 s 1
short_name_matches(name, p, hm) ==
  LET Compared(e) == At(name, e.a) = NUL /\ At(hm, e.b) = " "
  IN Compared(short_name_loop(name, skip_blank(name, p), hm, 5))

\* a test of an entry of main that leaves the monoclinic short names out
main_entry_matches_full_only(name, first, p, sg) ==
  /\ Ord(sg.hm[1]) = first
  /\ At(sg.hm, 3) = At(name, p)
  /\ name_matches(name, p, sg.hm, sg.ext)

\* the test of the entry sg of main in the first loop of find_spacegroup_by_name
main_entry_matches(name, first, p, sg) ==
  IF Ord(sg.hm[1]) = first /\ At(sg.hm, 3) = At(name, p)
    THEN name_matches(name, p, sg.hm, sg.ext)
  ELSE IF Ord(sg.hm[1]) = first /\ At(sg.hm, 3) = "1" /\ At(sg.hm, 4) = " "
          /\ At(sg.hm, 5) # "1"
    THEN short_name_matches(name, p, sg.hm)
  ELSE FALSE

\* an alternate name that returns the entry of main one position early
alt_entry_off_by_one(alt) == alt.pos

\* &spacegroup_tables::main[sg.pos]
alt_entry(alt) == alt.pos + 1

\* the two loops of find_spacegroup_by_name over the table main and alt_names,
\* for the upper-cased first character (its code) and the position p of the second
find_spacegroup_by_name_loops(name, first, p, main) ==
  LET Alt(hits) == IF hits = 0 THEN 0 ELSE alt_entry(alt_names[hits])
      Main(hit) ==
        IF hit # 0 THEN hit
        ELSE Alt(FirstOf({k \in 1..Len(alt_names) :
                            /\ Ord(alt_names[k].hm[1]) = first
                            /\ At(alt_names[k].hm, 3) = At(name, p)
                            /\ name_matches(name, p, alt_names[k].hm, alt_names[k].ext)}))
  IN Main(FirstOf({i \in 1..Len(main) : main_entry_matches(name, first, p, main[i])}))

\* if (name[0] == 'H') name[0] = 'R'
leading_H_to_R(name0) ==
  IF At(name0, 1) = "H" THEN <<"R">> \o Tail(name0) ELSE name0

\* find_spacegroup_by_name over the table main
find_spacegroup_by_name(name0, main) ==
  LET Named(name, p) ==
        IF IsDigit(At(name, p))
          THEN LET Number(n) ==
                     IF At(name, n.endptr) = NUL THEN find_spacegroup_by_number(n.val, main) ELSE 0
               IN Number(strtol(name, p))
        ELSE IF ClearBit5(Ord(At(name, p))) = 0 THEN 0
        ELSE find_spacegroup_by_name_loops(name, ClearBit5(Ord(At(name, p))),
                                           skip_blank(name, p + 1), main)
      Renamed(name) == Named(name, skip_blank(name, 1))
  IN Renamed(leading_H_to_R(name0))

\* the test find_spacegroup_by_ops makes of the entry sg, whose sg.operations()
\* is ops, when it looks at hall[0] alone
ops_entry_matches_first_char_only(g, c, sg, ops) ==
  /\ c = At(sg.hall, 1)
  /\ is_same_as(g, ops)

\* the test find_spacegroup_by_ops makes of the entry sg, whose sg.operations() is ops
ops_entry_matches(g, c, sg, ops) ==
  /\ c = At(sg.hall, 1) \/ c = At(sg.hall, 2)
  /\ is_same_as(g, ops)

\* find_spacegroup_by_ops(g) over the table main, ops[i] being main[i].operations()
find_spacegroup_by_ops(g, main, ops) ==
  LET Scanned(c) == FirstOf({i \in 1..Len(main) : ops_entry_matches(g, c, main[i], ops[i])})
  IN Scanned(find_centering(g))

----------------------------------------------------------------------------
(* Hall symbols handed to generators_from_hall besides the tabulated ones *)

\* accepted although they are not table entries
AcceptedHalls ==
  { <<"P", " ", "4", "w", " ", "2", "c">>,
    <<"C", " ", "2", "y", " ", "(", "x", ",", "y", ",", "-", "x", "+", "z", ")">>,
    <<"P", " ", "1", " ", "2">>,
    <<"P", " ", "-", "1", " ", "2">>,
    <<"P", " ", "2", " ", "-", "1">>,
    <<"p", " ", "2">>,
    <<" ", "P", " ", "2">>,
    <<"P", "_", "2", "_", "2">>,
    <<"-", "P", " ", "2", " ", "2", " ", "3">>,
    <<"P", " ", "2", " ", "(", "0", " ", "0", " ", "1", ")">>,
    <<"P", " ", "2", " ", "(", "0", " ", "0", ")">>,
    <<"P">>,
    <<"P", " ", "2", " ", "1">>,
    <<"P", " ", "2", " ", "2", "x", " ", "2", "y", " ", "3", "*">>,
    <<"I", " ", "2", "y", " ", "(", "x", ",", "y", ",", "x", "+", "z", ")">>,
    <<"P", " ", "2", " ", "(", "x", "+", "1", "/", "4", ",", "y", ",", "z", "-", "1", "/", "4", ")">>,
    <<"F", " ", "2", " ", "(", "0", " ", "0", " ", "-", "1", ")">>,
    <<"P", " ", "1", " ", "-", "2">>,
    <<"P", " ", "1", " ", "1", " ", "3">>,
    <<"P", " ", "-", "1", " ", "1", " ", "-", "1">>,
    <<"-", "P", " ", "2", " ", "(", "0", " ", "0", " ", "1", ")">> }

\* rejected for other reasons than the four of MalformedHalls
RejectedHalls ==
  { <<>>,
    <<"P", " ", "2", "q">>,
    <<"P", " ", "2", " ", "3">>,
    <<"P", " ", "2", " ", "4">>,
    <<"P", " ", "2", " ", "2", " ", "2", " ", "2">>,
    <<"P", " ", "3", "'">>,
    <<"P", " ", "2", "1", "2">>,
    <<"P", " ", "2", " ", "(", "0", " ", "0", " ", "1", ")", " ", "x">>,
    <<"P", " ", "2", " ", "(", "0", "*", "x", ",", "y", ",", "z", ")">>,
    <<"P", " ", "2", " ", "(", "x", " ", "y", " ", "z", ")">>,
    <<"P", " ", "2", " ", "(", "x", "+", ",", "y", ",", "z", ")">>,
    <<"P", " ", "2", " ", "(", "x", ",", "y", ",", "z", "z", ")">>,
    <<"P", " ", "2", " ", "(", "x", ",", "y", ",", "1", "/", "5", ")">>,
    <<"P", " ", "6", " ", "3">>,
    <<"P", " ", "4", "*">> }

\* a fractional translation on a symbol that has no principal axis
NoAxisFractionHalls ==
  { <<"P", " ", "1", " ", "2", "1">>,
    <<"P", " ", "3", "*", "1">>,
    <<"P", " ", "2", " ", "1", "1">>,
    <<"P", " ", "2", "'", "1">>,
    <<"P", " ", "3", " ", "2", "1">> }

LatticeLetters == {"P", "A", "B", "C", "I", "R", "S", "T", "H", "F"}

\* what may follow the first matrix symbol
HallTails ==
  { <<>>,
    <<" ", "2">>,
    <<" ", "2", " ", "3">>,
    <<" ", "2", "c", " ", "(", "0", " ", "0", " ", "1", ")">> }

\* the first character of the first matrix symbol is no rotation order
BadOrderHalls ==
  {<<l, " ">> \o neg \o <<d>> \o tail :
     l \in {"P", "I", "F"}, neg \in {<<>>, <<"-">>}, d \in {"0", "5", "7", "8", "9", "x"},
     tail \in HallTails}
  \cup { <<"P", " ", "2", " ", "7">>,
    <<"P", " ", "4", " ", "2", " ", "9">>,
    <<"-", "P", " ", "2", " ", "2", " ", "0", "c">>,
    <<"P", " ", "2", " ", "-", "5">> }

\* the lattice letter is none of LatticeLetters (nor a lower-case one)
UnknownLatticeHalls ==
  {cen \o <<l>> \o <<" ", "2">> \o tail :
     cen \in {<<>>, <<"-">>}, l \in {"X", "Q", "D", "2", "q", "*"}, tail \in HallTails}

\* a basis-change clause that is never closed
MissingParenHalls ==
  {<<l>> \o sym \o <<" ", "(">> \o cob :
     l \in {"P", "C"}, sym \in { <<" ", "2">>,
              <<" ", "2", "y">>,
              <<" ", "4", "w", " ", "2", "c">> },
     cob \in { <<"x", ",", "y", ",", "z">>,
              <<"0", " ", "0", " ", "1">>,
              <<"x", ",", "y">>,
              <<>> }}

\* a basis-change clause with commas, but not exactly two of them
WrongCommaHalls ==
  {<<l>> \o sym \o <<" ", "(">> \o cob \o <<")">> :
     l \in {"P", "C"}, sym \in { <<" ", "2">>,
              <<" ", "2", "y">>,
              <<" ", "4", "w", " ", "2", "c">> },
     cob \in { <<"x", ",", "y">>,
              <<"x", ",", "y", ",", "z", ",">>,
              <<"x", ",", "y", ",", "z", ",", "x">>,
              <<",">>,
              <<"x", ",", "y", "+", "1", "/", "2">> }}

MalformedHalls == BadOrderHalls \cup UnknownLatticeHalls \cup MissingParenHalls \cup WrongCommaHalls

HallInputs ==
  TableHalls \cup AcceptedHalls \cup RejectedHalls \cup NoAxisFractionHalls \cup MalformedHalls

----------------------------------------------------------------------------
(* The caller of the Hall-symbol interpreter: symops_from_hall in two steps *)

\* no lookup or query was made yet
NoQuery ==
  /\ found = 0
  /\ other = EmptyGroupOps
  /\ answer = <<>>
  /\ iter = [n_sym |-> 0, n_cen |-> 0]
  /\ number = 0

Init ==
  /\ pc = "idle"
  /\ hall = <<>>
  /\ gops = EmptyGroupOps
  /\ failure = NoFailure
  /\ opA = NoOp
  /\ opB = NoOp
  /\ opC = NoOp
  /\ resL = NoOp
  /\ resR = NoOp
  /\ text = <<>>
  /\ inexact = 0
  /\ calls = <<>>
  /\ NoQuery

\* GroupOps ops = generators_from_hall(hall).  A write to op.tran[] outside the
\* array is undefined behaviour: the call may return as if nothing was written,
\* or anything else may happen ("undefined").
GeneratorsFromHall ==
  /\ pc = "idle"
  /\ \E h \in HallInputs : \E r \in {generators_from_hall(h)} :
       /\ hall' = h
       /\ IF r.ok
            THEN /\ gops' = [sym_ops |-> r.val.sym_ops, cen_ops |-> r.val.cen_ops]
                 /\ calls' = r.val.calls
                 /\ failure' = NoFailure
                 /\ IF r.val.ub THEN pc' \in {"generators", "undefined"}
                                ELSE pc' = "generators"
            ELSE /\ gops' = EmptyGroupOps
                 /\ calls' = <<>>
                 /\ failure' = FailureOf(r)
                 /\ pc' = "failed"
  /\ UNCHANGED <<opA, opB, opC, resL, resR, text, inexact>>
  /\ UNCHANGED query

\* ops.add_missing_elements()
AddMissingElements ==
  /\ pc = "generators"
  /\ \E r \in {add_missing_elements(gops)} :
       IF r.ok
         THEN gops' = r.val /\ failure' = NoFailure /\ pc' = "closed"
         ELSE gops' = gops /\ failure' = FailureOf(r) /\ pc' = "failed"
  /\ UNCHANGED <<hall, opA, opB, opC, resL, resR, text, inexact, calls>>
  /\ UNCHANGED query

Next == GeneratorsFromHall \/ AddMissingElements

Spec == Init /\ [][Next]_vars

----------------------------------------------------------------------------
(* A caller that works with single operations: products, inverses, wrap *)

\* the operations a range-for over a GroupOps visits (Iter, begin, end), in order
iterate(g) == range_for(g, Iter_begin(g), <<>>)

OpsOf(g) ==
  LET Visited(ops) == {ops[n] : n \in 1..Len(ops)}
  IN Visited(iterate(g))

\* tabulated Hall symbols of the groups whose operations are multiplied
AlgebraHalls ==
  { <<"-", "P", " ", "1">>,
    <<"I", " ", "2", "y">>,
    <<"P", " ", "6", "1">>,
    <<"P", " ", "4", "w", " ", "2", "c">>,
    <<"R", " ", "3">>,
    <<"P", " ", "2", "a", "c", " ", "2", "a", "b", " ", "3">>,
    <<"P", " ", "4", " ", "2", " ", "3">> }

\* change-of-basis operators of get_basisop and two symmetry operations, as written
CobTriplets ==
  { <<"x", ",", "y", ",", "z">>,
    <<"x", "+", "1", "/", "8", ",", "y", "+", "1", "/", "8", ",", "z", "+", "1", "/", "8">>,
    <<"-", "1", "/", "2", "*", "x", "+", "z", ",", "1", "/", "2", "*", "x", ",", "y">>,
    <<"x", "-", "1", "/", "2", "*", "z", ",", "y", ",", "1", "/", "2", "*", "z">>,
    <<"1", "/", "2", "*", "x", "+", "1", "/", "2", "*", "y", ",", "-", "1", "/", "2", "*", "x", "+", "1", "/", "2", "*", "y", ",", "z">>,
    <<"x", ",", "y", ",", "-", "x", "+", "z">>,
    <<"x", "-", "1", "/", "4", ",", "y", "-", "1", "/", "4", ",", "z", "-", "1", "/", "4">>,
    <<"-", "y", ",", "x", ",", "z", "+", "1", "/", "4">> }

CobOps == {parse_triplet(t).val : t \in CobTriplets}

MaxTran == 25

\* operations whose translation was never wrapped
ShiftedOps ==
  {[rot |-> r, tran |-> <<t, u, t + u>>] :
     r \in {identity.rot, parse_triplet(<<"-", "y", ",", "x", "-", "y", ",", "z">>).val.rot},
     t \in -MaxTran..MaxTran, u \in -MaxTran..MaxTran}

InitGroupOps ==
  /\ pc = "group_ops"
  /\ hall \in AlgebraHalls
  /\ gops = symops_from_hall(hall).val
  /\ opA \in OpsOf(gops)
  /\ opB \in OpsOf(gops)
  /\ opC \in OpsOf(gops)
  /\ failure = NoFailure
  /\ resL = NoOp
  /\ resR = NoOp
  /\ text = <<>>
  /\ inexact = 0
  /\ calls = <<>>
  /\ NoQuery

InitAnyOps ==
  /\ pc = "any_ops"
  /\ hall = <<>>
  /\ gops = EmptyGroupOps
  /\ opA \in CobOps \cup ShiftedOps
  /\ opB \in CobOps
  /\ opC = NoOp
  /\ failure = NoFailure
  /\ resL = NoOp
  /\ resR = NoOp
  /\ text = <<>>
  /\ inexact = 0
  /\ calls = <<>>
  /\ NoQuery

InitOps == InitGroupOps \/ InitAnyOps

\* (a * b) * c and a * (b * c)
Associate ==
  /\ pc = "group_ops"
  /\ resL' = OpMul(OpMul(opA, opB), opC)
  /\ resR' = OpMul(opA, OpMul(opB, opC))
  /\ pc' = "associated"
  /\ UNCHANGED <<hall, gops, failure, opA, opB, opC, text, inexact, calls>>
  /\ UNCHANGED query

\* Op::identity() * a and a * Op::identity()
IdentityLaw ==
  /\ pc = "group_ops"
  /\ resL' = OpMul(identity, opA)
  /\ resR' = OpMul(opA, identity)
  /\ pc' = "identity_law"
  /\ UNCHANGED <<hall, gops, failure, opA, opB, opC, text, inexact, calls>>
  /\ UNCHANGED query

\* a * a.inverse(); resR keeps a.inverse()
InverseLaw ==
  /\ pc = "group_ops"
  /\ \E inv \in {inverse(opA)} :
       IF inv.ok
         THEN resL' = OpMul(opA, inv.val) /\ resR' = inv.val
              /\ failure' = NoFailure /\ pc' = "inverse_law"
         ELSE resL' = NoOp /\ resR' = NoOp
              /\ failure' = FailureOf(inv) /\ pc' = "failed"
  /\ UNCHANGED <<hall, gops, opA, opB, opC, text, inexact, calls>>
  /\ UNCHANGED query

\* a.combine(b), counting the divisions by DEN that are not exact
Combine ==
  /\ pc \in {"group_ops", "any_ops"}
  /\ resL' = combine(opA, opB)
  /\ inexact' = combine_remainders(opA, opB)
  /\ pc' = "combined"
  /\ UNCHANGED <<hall, gops, failure, opA, opB, opC, resR, text, calls>>
  /\ UNCHANGED query

\* a.wrap(), and wrap() applied to the result once more
Wrap ==
  /\ pc = "any_ops"
  /\ resL' = wrap(opA)
  /\ resR' = wrap(wrap(opA))
  /\ pc' = "wrapped"
  /\ UNCHANGED <<hall, gops, failure, opA, opB, opC, text, inexact, calls>>
  /\ UNCHANGED query

\* a * b
Multiply ==
  /\ pc = "any_ops"
  /\ resL' = OpMul(opA, opB)
  /\ pc' = "multiplied"
  /\ UNCHANGED <<hall, gops, failure, opA, opB, opC, resR, text, inexact, calls>>
  /\ UNCHANGED query

NextOps == Associate \/ IdentityLaw \/ InverseLaw \/ Combine \/ Wrap \/ Multiply

SpecOps == InitOps /\ [][NextOps]_vars

----------------------------------------------------------------------------
(* A caller that formats and parses triplets *)

\* every operation of the fully expanded group of every table entry
TableOps == UNION {OpsOf(symops_from_hall(h).val) : h \in TableHalls}

MaxShift == 1

\* operations of the AlgebraHalls groups moved by whole cells, never wrapped
UnwrappedOps ==
  {translate(op, <<i * DEN, j * DEN, k * DEN>>) :
     op \in UNION {OpsOf(symops_from_hall(h).val) : h \in AlgebraHalls},
     i \in -MaxShift..MaxShift, j \in -MaxShift..MaxShift, k \in -MaxShift..MaxShift}

TripletOps == TableOps \cup UnwrappedOps \cup ShiftedOps

\* texts without exactly two commas
CommaCountTexts ==
  { <<"x", ",", "y">>,
    <<"x", ",", "y", ",", "z", ",">>,
    <<"x", "y", "z">>,
    <<>>,
    <<"x", ",", "y", ",", "z", ",", "x">>,
    <<",">>,
    <<"x", "+", ",", "y">>,
    <<"x", ",", "y", ",", "q", ",">> }

\* texts with two commas and a character that is no axis where a term stands
UnsupportedCharTexts ==
  { <<"q", ",", "y", ",", "z">>,
    <<"x", ",", "y", ",", "-", "q">>,
    <<"x", ",", "2", "*", "w", ",", "z">>,
    <<"x", ",", "y", ",", "z", "+", "!">>,
    <<"x", ",", "1", "/", "2", "*", ",", "z">>,
    <<"x", ",", " ", "y", ",", " ", "z", "+", "1", "/", "2", "+", "x", "+", "#">> }

\* texts with two commas and a part that ends in a sign
TrailingSignTexts ==
  { <<"x", "+", ",", "y", ",", "z">>,
    <<"x", ",", "y", "-", ",", "z">>,
    <<"x", ",", "y", ",", "z", "+">>,
    <<"x", ",", "y", ",", "z", "+", "1", "/", "2", "-">>,
    <<"-", "x", ",", "-", "y", ",", "-">>,
    <<"x", ",", "y", "+", " ", ",", "z">> }

\* other texts: well-formed ones, an empty part, a character after a complete term,
\* a denominator that does not divide DEN
OtherTexts ==
  { <<"x", ",", "y", ",", "z">>,
    <<"-", "y", ",", "x", "-", "y", ",", "z", "+", "1", "/", "3">>,
    <<"x", ",", ",", "z">>,
    <<"x", ",", "y", ",", "z", "q">>,
    <<"x", " ", "y", ",", "y", ",", "z">>,
    <<"x", ",", "y", ",", "z", "+", "1", "/", "5">>,
    <<"x", ",", "y", ",", "z", "+", "1", "/", "0">>,
    <<"-", "h", ",", " ", "k", "+", "1", "/", "2", " ", ",", "L", "_", "-", "_", "3", "/", "4">> }

TripletTexts == CommaCountTexts \cup UnsupportedCharTexts \cup TrailingSignTexts \cup OtherTexts

InitTripletOp ==
  /\ pc = "op"
  /\ opA \in TripletOps
  /\ text = <<>>
  /\ hall = <<>>
  /\ gops = EmptyGroupOps
  /\ failure = NoFailure
  /\ opB = NoOp
  /\ opC = NoOp
  /\ resL = NoOp
  /\ resR = NoOp
  /\ inexact = 0
  /\ calls = <<>>
  /\ NoQuery

InitTripletText ==
  /\ pc = "text"
  /\ text \in TripletTexts
  /\ opA = NoOp
  /\ hall = <<>>
  /\ gops = EmptyGroupOps
  /\ failure = NoFailure
  /\ opB = NoOp
  /\ opC = NoOp
  /\ resL = NoOp
  /\ resR = NoOp
  /\ inexact = 0
  /\ calls = <<>>
  /\ NoQuery

InitTriplet == InitTripletOp \/ InitTripletText

\* text = opA.triplet()
MakeTriplet ==
  /\ pc = "op"
  /\ text' = triplet(opA)
  /\ pc' = "formatted"
  /\ UNCHANGED <<hall, gops, failure, opA, opB, opC, resL, resR, inexact, calls>>
  /\ UNCHANGED query

\* resL = parse_triplet(text), of a text the caller was given or of one just formatted
ParseTriplet ==
  /\ pc \in {"text", "formatted"}
  /\ \E r \in {parse_triplet(text)} :
       IF r.ok
         THEN /\ resL' = r.val
              /\ failure' = NoFailure
              /\ pc' = IF pc = "formatted" THEN "round_trip" ELSE "parsed"
         ELSE /\ resL' = NoOp
              /\ failure' = FailureOf(r)
              /\ pc' = IF pc = "formatted" THEN "round_trip_failed" ELSE "parse_failed"
  /\ UNCHANGED <<hall, gops, opA, opB, opC, resR, text, inexact, calls>>
  /\ UNCHANGED query

NextTriplet == MakeTriplet \/ ParseTriplet

SpecTriplet == InitTriplet /\ [][NextTriplet]_vars

----------------------------------------------------------------------------
(* A caller that queries a GroupOps: lookup by operations, change of basis, *)
(* centring, grid factors, iteration                                       *)

\* Hall symbols given to symops_from_hall: four that are in no table entry,
\* two that are rejected or change the basis themselves, and ten of the table
QueriedHalls ==
  { <<"C", " ", "2", "y", " ", "(", "x", ",", "y", ",", "-", "x", "+", "z", ")">>,
    <<"P", " ", "4", "w", " ", "2", "c">>,
    <<"P", " ", "1", " ", "2">>,
    <<"-", "P", " ", "2", " ", "(", "0", " ", "0", " ", "1", ")">>,
    <<"p", " ", "2", " ", "2", " ", "-", "1">>,
    <<"I", " ", "4", " ", "(", "x", "+", "1", "/", "4", ",", "y", ",", "z", ")">>,
    <<"I", " ", "2", "y">>,
    <<"C", " ", "2", "y">>,
    <<"P", " ", "1">>,
    <<"-", "P", " ", "1">>,
    <<"P", " ", "2", "a", "c", " ", "2", "a", "b">>,
    <<"R", " ", "3">>,
    <<"P", " ", "6", "1">>,
    <<"-", "F", " ", "4", " ", "2", " ", "3">>,
    <<"P", " ", "2", "y", "b">>,
    <<"A", " ", "2", " ", "-", "2">>,
    <<"P", " ", "2", " ", "(", "x", ",", "x", ",", "z", ")">>,
    <<"-", "C", " ", "2", "y", " ", "(", "x", ",", "y", ",", "x", "+", "y", ")">> }

\* operators given to change_basis: basis operators of get_basisop, the one of
\* the documentation, an exchange of axes, shifts of the origin, one that halves
\* the cell, and one with fractions that keeps its volume
BasisChanges ==
  { <<"x", ",", "y", ",", "x", "+", "z">>,
    <<"z", ",", "x", ",", "y">>,
    <<"z", ",", "y", ",", "-", "x">>,
    <<"x", ",", "y", ",", "-", "x", "+", "z">>,
    <<"y", ",", "x", ",", "z">>,
    <<"x", "+", "1", "/", "4", ",", "y", "-", "1", "/", "4", ",", "z", "+", "1", "/", "4">>,
    <<"x", "+", "1", "/", "8", ",", "y", "+", "1", "/", "8", ",", "z", "+", "1", "/", "8">>,
    <<"1", "/", "2", "*", "x", "+", "1", "/", "2", "*", "y", ",", "-", "1", "/", "2", "*", "x", "+", "1", "/", "2", "*", "y", ",", "z">>,
    <<"1", "/", "2", "*", "x", ",", "2", "*", "y", ",", "z">>,
    <<"x", ",", "x", ",", "z">>,
    <<"x", ",", "y", ",", "x", "+", "y">>,
    <<"x", "-", "y", ",", "y", "-", "x", ",", "z", "+", "1", "/", "2">> }

\* the lists centring_vectors returns
CanonicalCentrings ==
  {centring_vectors(c).val : c \in LatticeLetters}

\* every ordering of the vectors of cen
Orderings(cen) == {[n \in 1..Len(cen) |-> cen[q[n]]] : q \in Permutations(1..Len(cen))}

\* lists of centring vectors that are no ordering of a canonical list
OtherCentrings ==
  { <<>>,
    << <<0, 0, 0>>, <<0, 0, 0>> >>,
    << <<0, 12, 12>> >>,
    << <<12, 12, 12>>, <<0, 12, 12>> >>,
    << <<0, 0, 0>>, <<12, 0, 0>> >>,
    << <<0, 0, 0>>, <<0, 12, 12>>, <<12, 0, 12>> >>,
    << <<0, 0, 0>>, <<24, 36, 36>> >>,
    << <<0, 0, 0>>, <<8, 16, 16>> >>,
    << <<0, 0, 0>>, <<8, 16, 16>>, <<16, 8, 8>>, <<0, 0, 0>> >>,
    << <<0, 0, 0>>, <<8, 16, 16>>, <<16, 8, 0>> >>,
    << <<0, 0, 0>>, <<0, 12, 12>>, <<12, 0, 12>>, <<12, 12, 0>>, <<12, 12, 12>> >> }

CentringInputs == UNION {Orderings(cen) : cen \in CanonicalCentrings} \cup OtherCentrings

InitGroup ==
  /\ pc = "start"
  /\ hall = <<>>
  /\ gops = EmptyGroupOps
  /\ failure = NoFailure
  /\ opA = NoOp
  /\ opB = NoOp
  /\ opC = NoOp
  /\ resL = NoOp
  /\ resR = NoOp
  /\ text = <<>>
  /\ inexact = 0
  /\ calls = <<>>
  /\ NoQuery

\* GroupOps ops = sg.operations() for an entry sg of the table main, whose
\* operations() are ops
Operations(main, ops) ==
  /\ pc = "start"
  /\ \E i \in 1..Len(main) :
       /\ hall' = main[i].hall
       /\ gops' = ops[i]
  /\ pc' = "group"
  /\ UNCHANGED <<failure, opA, opB, opC, resL, resR, text, inexact, calls>>
  /\ UNCHANGED query

\* GroupOps ops = symops_from_hall(hall)
SymopsFromHall ==
  /\ pc = "start"
  /\ \E h \in QueriedHalls : \E r \in {symops_from_hall(h)} :
       /\ hall' = h
       /\ IF r.ok
            THEN gops' = r.val /\ failure' = NoFailure /\ pc' = "group"
            ELSE gops' = gops /\ failure' = FailureOf(r) /\ pc' = "failed"
  /\ UNCHANGED <<opA, opB, opC, resL, resR, text, inexact, calls>>
  /\ UNCHANGED query

\* a GroupOps filled in by the caller: the identity and a list of centring vectors
SetCentring ==
  /\ pc = "start"
  /\ \E cen \in CentringInputs : gops' = [sym_ops |-> <<identity>>, cen_ops |-> cen]
  /\ pc' = "group"
  /\ UNCHANGED <<hall, failure, opA, opB, opC, resL, resR, text, inexact, calls>>
  /\ UNCHANGED query

\* ops.change_basis(cob); other keeps what ops was
ChangeBasis ==
  /\ pc = "group"
  /\ \E t \in BasisChanges : \E cob \in {parse_triplet(t).val} :
       \E r \in {change_basis(gops, cob)} :
         /\ opA' = cob
         /\ other' = gops
         /\ IF r.ok
              THEN gops' = r.val /\ failure' = NoFailure /\ pc' = "changed"
              ELSE gops' = gops /\ failure' = FailureOf(r) /\ pc' = "failed"
  /\ UNCHANGED <<hall, opB, opC, resL, resR, text, inexact, calls>>
  /\ UNCHANGED <<found, answer, iter, number>>

\* find_spacegroup_by_ops(ops)
FindSpacegroupByOps(main, ops) ==
  /\ pc \in {"group", "changed"}
  /\ found' \in {find_spacegroup_by_ops(gops, main, ops)}
  /\ pc' = "looked_up"
  /\ UNCHANGED <<hall, gops, failure, opA, opB, opC, resL, resR, text, inexact, calls>>
  /\ UNCHANGED <<other, answer, iter, number>>

\* ops.find_centering()
FindCentering ==
  /\ pc \in {"group", "changed"}
  /\ answer' \in {find_centering(gops)}
  /\ pc' = "centring"
  /\ UNCHANGED <<hall, gops, failure, opA, opB, opC, resL, resR, text, inexact, calls>>
  /\ UNCHANGED <<found, other, iter, number>>

\* ops.is_centric()
IsCentric ==
  /\ pc \in {"group", "changed"}
  /\ answer' = is_centric(gops)
  /\ pc' = "centric"
  /\ UNCHANGED <<hall, gops, failure, opA, opB, opC, resL, resR, text, inexact, calls>>
  /\ UNCHANGED <<found, other, iter, number>>

\* ops.find_grid_factors()
FindGridFactors ==
  /\ pc \in {"group", "changed"}
  /\ answer' \in {find_grid_factors(gops)}
  /\ pc' = "grid_factors"
  /\ UNCHANGED <<hall, gops, failure, opA, opB, opC, resL, resR, text, inexact, calls>>
  /\ UNCHANGED <<found, other, iter, number>>

\* it = ops.begin(), for the first time or once again after the end was reached
Begin ==
  /\ \/ pc = "group" /\ answer' = "first"
     \/ pc = "iterated" /\ answer = "first" /\ answer' = "again"
  /\ iter' = Iter_begin(gops)
  /\ number' = 0
  /\ pc' = "iterating"
  /\ UNCHANGED <<hall, gops, failure, opA, opB, opC, resL, resR, text, inexact, calls>>
  /\ UNCHANGED <<found, other>>

\* it != ops.end(): resL = *it, resR = ops.get_op(number), then ++it and ++number
Visit ==
  /\ pc = "iterating"
  /\ iter # Iter_end(gops)
  /\ resL' = Iter_deref(gops, iter)
  /\ resR' = get_op(gops, number)
  /\ iter' = Iter_increment(gops, iter)
  /\ number' = number + 1
  /\ UNCHANGED <<pc, hall, gops, failure, opA, opB, opC, text, inexact, calls>>
  /\ UNCHANGED <<found, other, answer>>

\* it == ops.end()
ReachEnd ==
  /\ pc = "iterating"
  /\ iter = Iter_end(gops)
  /\ pc' = "iterated"
  /\ UNCHANGED <<hall, gops, failure, opA, opB, opC, resL, resR, text, inexact, calls>>
  /\ UNCHANGED query

NextGroup ==
  \E main \in {SpaceGroupTable} : \E ops \in {[i \in 1..Len(main) |-> operations(main[i])]} :
    \/ Operations(main, ops) \/ SetCentring
    \/ FindSpacegroupByOps(main, ops) \/ FindCentering \/ IsCentric \/ FindGridFactors
    \/ Begin \/ Visit \/ ReachEnd

SpecGroup == InitGroup /\ [][NextGroup]_vars

\* a caller that builds a group from a Hall symbol, changes its basis and looks it up
NextBasis ==
  \E main \in {SpaceGroupTable} : \E ops \in {[i \in 1..Len(main) |-> operations(main[i])]} :
    SymopsFromHall \/ ChangeBasis \/ FindSpacegroupByOps(main, ops)

SpecBasis == InitGroup /\ [][NextBasis]_vars

----------------------------------------------------------------------------
(* A caller that looks entries up by name, by number and by reference setting *)

\* names given to find_spacegroup_by_name: full and short symbols, with and
\* without extension, numbers, alternate names, and names of no entry
NameInputs ==
  { <<"H", "3">>,
    <<"R", "3">>,
    <<"R", " ", "3", ":", "H">>,
    <<"R", " ", "3", ":", "R">>,
    <<"R", " ", "3">>,
    <<"P", " ", "m", " ", "m", " ", "m">>,
    <<"P", " ", "2", "1", " ", "2", "1", " ", "2", "1">>,
    <<"P", " ", "1", " ", "2", "1", " ", "1">>,
    <<"1", "9">>,
    <<"I", "2">>,
    <<"P", "2">>,
    <<"P", "2", "1">>,
    <<"C", " ", "2">>,
    <<"A", " ", "1", " ", "2", " ", "1">>,
    <<"C", " ", "m", " ", "m", " ", "e">>,
    <<"A", " ", "e", " ", "m", " ", "2">>,
    <<"C", " ", "c", " ", "c", " ", "e", ":", "2">>,
    <<"B", " ", "b", " ", "e", " ", "b">>,
    <<"P", " ", "n", " ", "n", " ", "n", ":", "2">>,
    <<"P", " ", "n", " ", "n", " ", "n">>,
    <<"P", " ", "1">>,
    <<"P", " ", "-", "1">>,
    <<"F", " ", "m", " ", "-", "3", " ", "m">>,
    <<"I", " ", "4", "1", "/", "a", " ", "m", " ", "d", ":", "1">>,
    <<"P", " ", "1", " ", "1", " ", "2">>,
    <<"B", " ", "1", " ", "1", " ", "2">>,
    <<"1", "0", "0", "3">>,
    <<>>,
    <<"X", " ", "2">>,
    <<"P", " ", "5">>,
    <<"1", "9", "x">>,
    <<"0">>,
    <<"2", "3", "1">>,
    <<"P">>,
    <<"P", " ", "m", " ", "m", " ", "m", ":", "1">>,
    <<"P", " ", "2", "1", " ", "1">>,
    <<"F", " ", "d", " ", "d", " ", "d", ":", "2">> }

UpperCase(c) == IF Ord(c) \in 97..122 THEN Chr(Ord(c) - 32) ELSE c

LowerCase(c) == IF Ord(c) \in 65..90 THEN Chr(Ord(c) + 32) ELSE c

\* the texts that differ from name only in the case of letters or only in
\* blanks (space, tab, underscore): all letters upper-cased, all lower-cased,
\* the first letter lower-cased, blanks removed, a blank put in front, a blank
\* put at the end, every space replaced by an underscore or by a tab
Respellings(name) ==
  { SubSeq([n \in 1..Len(name) |-> UpperCase(name[n])], 1, Len(name)),
    SubSeq([n \in 1..Len(name) |-> LowerCase(name[n])], 1, Len(name)),
    SubSeq([n \in 1..Len(name) |-> IF n = 1 THEN LowerCase(name[n]) ELSE name[n]], 1, Len(name)),
    SelectSeq(name, LAMBDA c : c \notin {" ", TAB, "_"}),
    <<" ">> \o name,
    name \o <<" ">>,
    SubSeq([n \in 1..Len(name) |-> IF name[n] = " " THEN "_" ELSE name[n]], 1, Len(name)),
    SubSeq([n \in 1..Len(name) |-> IF name[n] = " " THEN TAB ELSE name[n]], 1, Len(name)) } \ {name}

NumberMargin == 3

\* numbers given to get_spacegroup_reference_setting and find_spacegroup_by_number:
\* the space-group numbers and some on either side
NumberInputs == (1 - NumberMargin)..(230 + NumberMargin)

\* the name an entry of alt_names is written as, with its extension or without
AltNameText(alt, with_ext) ==
  IF with_ext /\ alt.ext # NUL THEN alt.hm \o <<":", alt.ext>> ELSE alt.hm

\* find_spacegroup_by_name(name)
FindSpacegroupByName(main) ==
  /\ pc = "start"
  /\ \E name \in NameInputs :
       /\ text' = name
       /\ found' = find_spacegroup_by_name(name, main)
  /\ pc' = "named"
  /\ UNCHANGED <<hall, gops, failure, opA, opB, opC, resL, resR, inexact, calls>>
  /\ UNCHANGED <<other, answer, iter, number>>

\* find_spacegroup_by_name of the same name spelled in another way; number
\* keeps what the first spelling returned and answer the second spelling
FindRespelled(main) ==
  /\ pc = "named"
  /\ \E name \in Respellings(text) :
       /\ answer' = name
       /\ found' = find_spacegroup_by_name(name, main)
  /\ number' = found
  /\ pc' = "respelled"
  /\ UNCHANGED <<hall, gops, failure, opA, opB, opC, resL, resR, text, inexact, calls>>
  /\ UNCHANGED <<other, iter>>

\* find_spacegroup_by_name(sg.short_name()) for the entry sg at position number
FindByShortName(main) ==
  /\ pc = "start"
  /\ \E i \in 1..Len(main) : \E name \in {short_name(main[i])} :
       /\ number' = i
       /\ text' = name
       /\ found' = find_spacegroup_by_name(name, main)
  /\ pc' = "short_named"
  /\ UNCHANGED <<hall, gops, failure, opA, opB, opC, resL, resR, inexact, calls>>
  /\ UNCHANGED <<other, answer, iter>>

\* find_spacegroup_by_name of the name of the entry of alt_names at position number
FindByAltName(main) ==
  /\ pc = "start"
  /\ \E k \in 1..Len(alt_names) : \E with_ext \in BOOLEAN :
       \E name \in {AltNameText(alt_names[k], with_ext)} :
         /\ number' = k
         /\ text' = name
         /\ found' = find_spacegroup_by_name(name, main)
  /\ pc' = "alt_named"
  /\ UNCHANGED <<hall, gops, failure, opA, opB, opC, resL, resR, inexact, calls>>
  /\ UNCHANGED <<other, answer, iter>>

\* get_spacegroup_reference_setting(number); answer keeps the type of the exception
GetSpacegroupReferenceSetting(main) ==
  /\ pc = "start"
  /\ \E n \in NumberInputs : \E r \in {get_spacegroup_reference_setting(n, main)} :
       /\ number' = n
       /\ IF r.ok
            THEN found' = r.val /\ failure' = NoFailure /\ answer' = answer
                 /\ pc' = "reference"
            ELSE found' = found /\ failure' = FailureOf(r) /\ answer' = r.type
                 /\ pc' = "failed"
  /\ UNCHANGED <<hall, gops, opA, opB, opC, resL, resR, text, inexact, calls>>
  /\ UNCHANGED <<other, iter>>

\* find_spacegroup_by_number(number)
FindSpacegroupByNumber(main) ==
  /\ pc = "start"
  /\ \E n \in NumberInputs \cup {main[i].ccp4 : i \in 1..Len(main)} :
       /\ number' = n
       /\ found' = find_spacegroup_by_number(n, main)
  /\ pc' = "numbered"
  /\ UNCHANGED <<hall, gops, failure, opA, opB, opC, resL, resR, text, inexact, calls>>
  /\ UNCHANGED <<other, answer, iter>>

NextNames ==
  \E main \in {SpaceGroupTable} :
    \/ FindSpacegroupByName(main) \/ FindRespelled(main)
    \/ FindByShortName(main) \/ FindByAltName(main)
    \/ GetSpacegroupReferenceSetting(main) \/ FindSpacegroupByNumber(main)

SpecNames == InitGroup /\ [][NextNames]_vars

----------------------------------------------------------------------------
(* The program sg: process_arg, and callers of the three lookups *)

\* what the program is given as SPACEGROUP: names, Hall symbols of tabulated and
\* of other groups, and texts that are neither
ArgInputs ==
  NameInputs \cup QueriedHalls \cup AcceptedHalls \cup RejectedHalls
  \cup NoAxisFractionHalls \cup UnknownLatticeHalls \cup MissingParenHalls
  \cup WrongCommaHalls

\* the type of the exception a failed result stands for: fail() throws
\* std::runtime_error, the two getters throw std::invalid_argument
exception_type(r) == IF "type" \in DOMAIN r THEN r.type ELSE "std::runtime_error"

\* a handler that catches nothing
catch_nothing(r) == FALSE

\* catch (std::runtime_error&)
catch_runtime_error(r) == exception_type(r) = "std::runtime_error"

\* process_arg(arg): steps lists the calls made and the first word of what is
\* printed; raised is the exception that leaves process_arg, if one does
process_arg(arg, main, ops) ==
  LET Reported(sg, steps, g, ub) ==
        [found |-> sg,
         steps |-> steps \o (IF sg = 0 THEN <<"Space group not found: ">>
                             ELSE <<"Number: ">>),
         gops |-> g, raised |-> NoFailure, ub |-> ub]
      Looked(g, ub, sg) ==
        Reported(sg,
                 <<"find_spacegroup_by_name", "symops_from_hall", "find_spacegroup_by_ops">>
                   \o (IF sg = 0 THEN <<"Hall symbol: ">> ELSE <<>>),
                 g, ub)
      Thrown(r) ==
        IF catch_runtime_error(r)
          THEN Reported(0, <<"find_spacegroup_by_name", "symops_from_hall">>,
                        EmptyGroupOps, FALSE)
          ELSE [found |-> 0, steps |-> <<"find_spacegroup_by_name", "symops_from_hall">>,
                gops |-> EmptyGroupOps, raised |-> FailureOf(r), ub |-> FALSE]
      Closed(r, ub) ==
        IF ~r.ok THEN Thrown(r)
        ELSE Looked(r.val, ub, find_spacegroup_by_ops(r.val, main, ops))
      \* symops_from_hall(arg): generators_from_hall, then add_missing_elements
      Generated(g) ==
        IF ~g.ok THEN Thrown(g)
        ELSE Closed(add_missing_elements([sym_ops |-> g.val.sym_ops,
                                          cen_ops |-> g.val.cen_ops]),
                    g.val.ub)
      Named(sg) ==
        IF sg # 0 THEN Reported(sg, <<"find_spacegroup_by_name">>, EmptyGroupOps, FALSE)
        ELSE Generated(generators_from_hall(arg))
  IN Named(find_spacegroup_by_name(arg, main))

\* process_arg(text): answer is what was called and printed, found the entry
\* reported and number its number; a matrix symbol that wrote outside its
\* translation leaves the program in an undefined state
ProcessArg(main, ops) ==
  /\ pc = "start"
  /\ \E arg \in ArgInputs : \E r \in {process_arg(arg, main, ops)} :
       /\ text' = arg
       /\ found' = r.found
       /\ answer' = r.steps
       /\ gops' = r.gops
       /\ failure' = r.raised
       /\ number' = IF r.found # 0 THEN main[r.found].number ELSE number
       /\ IF r.raised # NoFailure THEN pc' = "raised"
          ELSE IF r.ub THEN pc' \in {"reported", "undefined"}
          ELSE pc' = "reported"
  /\ UNCHANGED <<hall, opA, opB, opC, resL, resR, inexact, calls>>
  /\ UNCHANGED <<other, iter>>

NextTool ==
  \E main \in {SpaceGroupTable} : \E ops \in {[i \in 1..Len(main) |-> operations(main[i])]} :
    \/ ProcessArg(main, ops)
    \/ FindSpacegroupByName(main) \/ FindSpacegroupByNumber(main)
    \/ SetCentring \/ FindSpacegroupByOps(main, ops)

SpecTool == InitGroup /\ [][NextTool]_vars

----------------------------------------------------------------------------
(* A caller that inverts operations, changes the basis of a group there and back,
   and builds a group from its operations *)

\* the Hall symbols of QueriedHalls whose change-of-basis clause is a singular matrix
SingularClauseHalls ==
  { <<"P", " ", "2", " ", "(", "x", ",", "x", ",", "z", ")">>,
    <<"-", "C", " ", "2", "y", " ", "(", "x", ",", "y", ",", "x", "+", "y", ")">> }

\* operations with whole-number rotations that keep the z axis: a, b, c, d in
\* -1..1 in the upper left, e in 0..1 in the lower right
PlanarOps ==
  {[rot |-> << <<a * DEN, b * DEN, 0>>, <<c * DEN, d * DEN, 0>>, <<0, 0, e * DEN>> >>,
    tran |-> <<0, DEN \div 2, 0>>] :
     a \in -1..1, b \in -1..1, c \in -1..1, d \in -1..1, e \in 0..1}

InverseInputs == PlanarOps \cup CobOps \cup {parse_triplet(t).val : t \in BasisChanges}

\* a.inverse(); resL keeps the result
Inverse ==
  /\ pc = "start"
  /\ \E a \in InverseInputs : \E inv \in {inverse(a)} :
       /\ opA' = a
       /\ IF inv.ok
            THEN resL' = inv.val /\ failure' = NoFailure /\ pc' = "inverted"
            ELSE resL' = resL /\ failure' = FailureOf(inv) /\ pc' = "not_inverted"
  /\ UNCHANGED <<hall, gops, opB, opC, resR, text, inexact, calls>>
  /\ UNCHANGED query

\* ops.change_basis(cob.inverse()) after ops.change_basis(cob); opB keeps
\* cob.inverse(), other still is what ops was before both
ChangeBasisBack ==
  /\ pc = "changed"
  /\ \E inv \in {inverse(opA)} :
       IF ~inv.ok
         THEN gops' = gops /\ opB' = opB /\ failure' = FailureOf(inv) /\ pc' = "not_inverted"
         ELSE \E r \in {change_basis(gops, inv.val)} :
                /\ opB' = inv.val
                /\ IF r.ok
                     THEN gops' = r.val /\ failure' = NoFailure /\ pc' = "changed_back"
                     ELSE gops' = gops /\ failure' = FailureOf(r) /\ pc' = "failed"
  /\ UNCHANGED <<hall, opA, opC, resL, resR, text, inexact, calls>>
  /\ UNCHANGED query

\* split_centering_vectors of the operations of ops in the order of iteration;
\* other keeps what ops was
SplitCenteringVectors ==
  /\ pc = "group"
  /\ other' = gops
  /\ gops' = split_centering_vectors(range_for(gops, Iter_begin(gops), <<>>))
  /\ pc' = "split"
  /\ UNCHANGED <<hall, failure, opA, opB, opC, resL, resR, text, inexact, calls>>
  /\ UNCHANGED <<found, answer, iter, number>>

NextChange ==
  \E main \in {SpaceGroupTable} : \E ops \in {[i \in 1..Len(main) |-> operations(main[i])]} :
    \/ Operations(main, ops) \/ SymopsFromHall \/ SetCentring
    \/ Inverse \/ ChangeBasis \/ ChangeBasisBack \/ SplitCenteringVectors

SpecChange == InitGroup /\ [][NextChange]_vars

----------------------------------------------------------------------------
(* add_missing_elements one loop iteration at a time *)

\* the generators written in a Hall symbol
GeneratorsOf(h) == generators_from_hall(h).val.sym_ops

\* the N-fold rotation about z without translation
RotationZ(N) == [rot |-> hall_rotation_z(N).val, tran |-> <<0, 0, 0>>]

\* x+y,y,z and x,x+y,z: rotations of infinite order
ShearXY == [rot |-> << <<DEN, DEN, 0>>, <<0, DEN, 0>>, <<0, 0, DEN>> >>, tran |-> <<0, 0, 0>>]

ShearYX == [rot |-> << <<DEN, 0, 0>>, <<DEN, DEN, 0>>, <<0, 0, DEN>> >>, tran |-> <<0, 0, 0>>]

\* x,y,0: a singular matrix
ProjectionXY == [rot |-> << <<DEN, 0, 0>>, <<0, DEN, 0>>, <<0, 0, 0>> >>, tran |-> <<0, 0, 0>>]

\* lists given to add_missing_elements: the generators of finite groups, of
\* infinite groups generated by rotations of finite order (a 4-fold with a
\* hexagonal 3-fold or 6-fold), rotations of infinite order, a singular
\* matrix, a pure translation, and lists that do not start with the identity
GeneratorLists ==
  {GeneratorsOf(h) : h \in { <<"P", " ", "1">>,
                             <<"-", "P", " ", "1">>,
                             <<"P", " ", "4", "w", " ", "2", "c">>,
                             <<"-", "P", " ", "6", " ", "2">>,
                             <<"-", "F", " ", "4", " ", "2", " ", "3">>,
                             <<"P", " ", "4", " ", "3", "z">>,
                             <<"P", " ", "6", " ", "4", "x">>,
                             <<"-", "P", " ", "3", " ", "4", "y">>,
                             <<"P", " ", "2", " ", "2", " ", "3", " ", "6", "x">> }}
  \cup { <<identity, ShearXY>>,
         <<identity, ShearXY, ShearYX>>,
         <<identity, RotationZ(4), ShearXY>>,
         <<identity, ProjectionXY>>,
         <<identity, RotationZ(2), ProjectionXY>>,
         <<identity, [rot |-> identity.rot, tran |-> <<DEN \div 2, 0, 0>>]>>,
         <<identity, identity, RotationZ(3)>>,
         <<>>,
         <<RotationZ(2), identity>> }

\* what add_missing_elements holds besides sym_ops before its loops run
NoLocals ==
  [gen |-> <<>>, coset_repr |-> <<>>, init_size |-> 0, i |-> 0, j |-> 0, n |-> 0,
   len |-> 0, g |-> NoOp]

\* a check_size that never fails
check_size_never(sym_ops) == FALSE

\* check_size: sym_ops.size() > 1023
check_size(sym_ops) == Len(sym_ops) > MaxGroupSize

\* add_missing_elements() is entered with sym_ops = answer: the two tests at
\* its head, gen, sym_ops.resize(2) and the first value of g; number counts
\* the steps made in its loops
EnterClosure ==
  /\ pc = "start"
  /\ \E list \in GeneratorLists :
       /\ answer' = list
       /\ IF list = <<>> \/ list[1] # identity
            THEN /\ gops' = [sym_ops |-> list, cen_ops |-> << <<0, 0, 0>> >>]
                 /\ other' = NoLocals
                 /\ failure' = FailureOf(Fail("oops", <<>>))
                 /\ pc' = "failed"
            ELSE IF Len(list) = 1
              THEN /\ gops' = [sym_ops |-> list, cen_ops |-> << <<0, 0, 0>> >>]
                   /\ other' = NoLocals
                   /\ failure' = NoFailure
                   /\ pc' = "returned"
              ELSE /\ gops' = [sym_ops |-> Sub(list, 1, 2), cen_ops |-> << <<0, 0, 0>> >>]
                   /\ other' = [NoLocals EXCEPT !.gen = Sub(list, 2, Len(list)),
                                                !.g = OpMul(list[2], list[2])]
                   /\ failure' = NoFailure
                   /\ pc' = "cyclic"
  /\ UNCHANGED <<hall, opA, opB, opC, resL, resR, text, inexact, calls>>
  /\ number' = 0
  /\ UNCHANGED <<found, iter>>

\* one iteration of for (Op g = sym_ops[1] * sym_ops[1]; g.rot != idrot; g *= sym_ops[1]),
\* or its end
CyclicStep ==
  /\ pc = "cyclic"
  /\ IF other.g.rot = identity.rot
       THEN /\ other' = [other EXCEPT !.i = 1]
            /\ pc' = "generators"
            /\ UNCHANGED <<gops, failure>>
       ELSE /\ gops' = [gops EXCEPT !.sym_ops = Append(gops.sym_ops, other.g)]
            /\ IF check_size(gops'.sym_ops)
                 THEN /\ failure' = FailureOf(Fail("1000+ elements in the group should not happen", <<>>))
                      /\ pc' = "failed"
                      /\ other' = other
                 ELSE /\ other' = [other EXCEPT !.g = OpMul(other.g, gops.sym_ops[2])]
                      /\ UNCHANGED <<pc, failure>>
  /\ UNCHANGED <<hall, opA, opB, opC, resL, resR, text, inexact, calls>>
  /\ number' = number + 1
  /\ UNCHANGED <<found, answer, iter>>

\* for (size_t i = 1; i < gen.size(); ++i): the test, and the two locals set
\* before for (;;)
NextGenerator ==
  /\ pc = "generators"
  /\ IF other.i < Len(other.gen)
       THEN /\ other' = [other EXCEPT !.coset_repr = <<identity>>,
                                      !.init_size = Len(gops.sym_ops)]
            /\ pc' = "pass"
       ELSE /\ other' = other
            /\ pc' = "returned"
  /\ UNCHANGED <<hall, gops, failure, opA, opB, opC, resL, resR, text, inexact, calls>>
  /\ number' = number + 1
  /\ UNCHANGED <<found, answer, iter>>

\* for (;;) { size_t len = coset_repr.size(); for (size_t j = 0; ...
PassStart ==
  /\ pc = "pass"
  /\ other' = [other EXCEPT !.len = Len(other.coset_repr), !.j = 1, !.n = 1]
  /\ pc' = "coset"
  /\ UNCHANGED <<hall, gops, failure, opA, opB, opC, resL, resR, text, inexact, calls>>
  /\ number' = number + 1
  /\ UNCHANGED <<found, answer, iter>>

\* the body of for (n != i + 1) for gen[n] and coset_repr[j]
CosetStep ==
  /\ pc = "coset"
  /\ other.j <= other.len
  /\ \E st \in {coset_step([sym_ops |-> gops.sym_ops, coset_repr |-> other.coset_repr],
                           other.gen, other.init_size, other.j, other.n)} :
       /\ gops' = [gops EXCEPT !.sym_ops = st.sym_ops]
       /\ other' = [other EXCEPT !.coset_repr = st.coset_repr,
                                 !.j = IF other.n = other.i + 1 THEN other.j + 1 ELSE other.j,
                                 !.n = IF other.n = other.i + 1 THEN 1 ELSE other.n + 1]
  /\ UNCHANGED <<pc, hall, failure, opA, opB, opC, resL, resR, text, inexact, calls>>
  /\ number' = number + 1
  /\ UNCHANGED <<found, answer, iter>>

\* j == len: if (len == coset_repr.size()) break; check_size();
PassEnd ==
  /\ pc = "coset"
  /\ other.j > other.len
  /\ IF other.len = Len(other.coset_repr)
       THEN /\ other' = [other EXCEPT !.i = other.i + 1]
            /\ pc' = "generators"
            /\ failure' = failure
       ELSE /\ other' = other
            /\ IF check_size(gops.sym_ops)
                 THEN /\ failure' = FailureOf(Fail("1000+ elements in the group should not happen", <<>>))
                      /\ pc' = "failed"
                 ELSE /\ failure' = failure
                      /\ pc' = "pass"
  /\ UNCHANGED <<hall, gops, opA, opB, opC, resL, resR, text, inexact, calls>>
  /\ number' = number + 1
  /\ UNCHANGED <<found, answer, iter>>

NextClosure ==
  EnterClosure \/ CyclicStep \/ NextGenerator \/ PassStart \/ CosetStep \/ PassEnd

SpecClosure == InitGroup /\ [][NextClosure]_vars

----------------------------------------------------------------------------
(* A caller that chains the producers of a GroupOps *)

MaxChain == 3

\* the Hall symbols the chains start from
ChainHalls ==
  { <<"P", " ", "1">>,
    <<"-", "P", " ", "2", "y", "b">>,
    <<"C", " ", "2", "y", " ", "(", "x", ",", "y", ",", "-", "x", "+", "z", ")">>,
    <<"I", " ", "4", "b", "w", " ", "2", "b", "w", " ", "-", "1", "b", "w">>,
    <<"-", "F", " ", "4", " ", "2", " ", "3">>,
    <<"R", " ", "3">> }

\* the changes of basis made in a chain
ChainChanges ==
  { <<"z", ",", "x", ",", "y">>,
    <<"x", ",", "y", ",", "-", "x", "+", "z">>,
    <<"x", "+", "1", "/", "4", ",", "y", "-", "1", "/", "4", ",", "z", "+", "1", "/", "4">>,
    <<"x", ",", "x", ",", "z">> }

\* operation lists given to split_centering_vectors: the operations of g in
\* the order of iteration, in the reverse order, without the first, no
\* operation at all, and a centring translation followed by the identity
SplitInputs(g) ==
  LET Lists(all) ==
        { all,
          [k \in 1..Len(all) |-> all[Len(all) + 1 - k]],
          Sub(all, 2, Len(all)),
          <<>>,
          <<[rot |-> identity.rot, tran |-> <<DEN \div 2, DEN \div 2, 0>>], identity>> }
  IN Lists(range_for(g, Iter_begin(g), <<>>))

\* ops = generators_from_hall(hall); number counts the producers called
ChainGenerators ==
  /\ pc = "start"
  /\ \E h \in ChainHalls : \E r \in {generators_from_hall(h)} :
       /\ hall' = h
       /\ gops' = [sym_ops |-> r.val.sym_ops, cen_ops |-> r.val.cen_ops]
  /\ number' = 1
  /\ answer' = <<"generators_from_hall">>
  /\ pc' = "produced"
  /\ UNCHANGED <<failure, opA, opB, opC, resL, resR, text, inexact, calls>>
  /\ UNCHANGED <<found, other, iter>>

\* ops = split_centering_vectors(list)
ChainSplit ==
  /\ pc \in {"start", "produced"}
  /\ number < MaxChain
  /\ \E list \in SplitInputs(gops) : gops' = split_centering_vectors(list)
  /\ number' = number + 1
  /\ answer' = (IF pc = "start" THEN <<>> ELSE answer) \o <<"split_centering_vectors">>
  /\ pc' = "produced"
  /\ UNCHANGED <<hall, failure, opA, opB, opC, resL, resR, text, inexact, calls>>
  /\ UNCHANGED <<found, other, iter>>

\* ops.add_missing_elements()
ChainClosure ==
  /\ pc = "produced"
  /\ number < MaxChain
  /\ \E r \in {add_missing_elements(gops)} :
       IF r.ok
         THEN gops' = r.val /\ failure' = NoFailure /\ pc' = "produced"
         ELSE gops' = gops /\ failure' = FailureOf(r) /\ pc' = "failed"
  /\ number' = number + 1
  /\ answer' = answer \o <<"add_missing_elements">>
  /\ UNCHANGED <<hall, opA, opB, opC, resL, resR, text, inexact, calls>>
  /\ UNCHANGED <<found, other, iter>>

\* ops.change_basis(cob)
ChainChangeBasis ==
  /\ pc = "produced"
  /\ number < MaxChain
  /\ \E t \in ChainChanges : \E cob \in {parse_triplet(t).val} :
       \E r \in {change_basis(gops, cob)} :
         /\ opA' = cob
         /\ IF r.ok
              THEN gops' = r.val /\ failure' = NoFailure /\ pc' = "produced"
              ELSE gops' = gops /\ failure' = FailureOf(r) /\ pc' = "failed"
  /\ number' = number + 1
  /\ answer' = answer \o <<"change_basis">>
  /\ UNCHANGED <<hall, opB, opC, resL, resR, text, inexact, calls>>
  /\ UNCHANGED <<found, other, iter>>

NextChain == ChainGenerators \/ ChainSplit \/ ChainClosure \/ ChainChangeBasis

SpecChain == InitGroup /\ [][NextChain]_vars

----------------------------------------------------------------------------
(* The asymmetric unit of reciprocal space (HklAsuChecker) *)

\* an apply_to_hkl that multiplies by the rows of rot instead of its columns
apply_to_hkl_untransposed(op, hkl) ==
  [i \in 1..3 |-> CDiv(op.rot[i][1] * hkl[1] + op.rot[i][2] * hkl[2] + op.rot[i][3] * hkl[3],
                       DEN)]

\* Op::apply_to_hkl: r[i] = (rot[0][i] * hkl[0] + rot[1][i] * hkl[1] + rot[2][i] * hkl[2]) / DEN
apply_to_hkl(op, hkl) ==
  [i \in 1..3 |-> CDiv(op.rot[1][i] * hkl[1] + op.rot[2][i] * hkl[2] + op.rot[3][i] * hkl[3],
                       DEN)]

\* the choice of asymmetric unit for each space-group number
ccp4_hkl_asu ==
  << 0, 0, 1, 1, 1, 1, 1, 1, 1, 1, 1, 1, 1, 1, 1, 2, 2, 2, 2, 2, 2, 2, 2, 2, 2, 2,
     2, 2, 2, 2, 2, 2, 2, 2, 2, 2, 2, 2, 2, 2, 2, 2, 2, 2, 2, 2, 2, 2, 2, 2, 2, 2,
     2, 2, 2, 2, 2, 2, 2, 2, 2, 2, 2, 2, 2, 2, 2, 2, 2, 2, 2, 2, 2, 2, 3, 3, 3, 3,
     3, 3, 3, 3, 3, 3, 3, 3, 3, 3, 4, 4, 4, 4, 4, 4, 4, 4, 4, 4, 4, 4, 4, 4, 4, 4,
     4, 4, 4, 4, 4, 4, 4, 4, 4, 4, 4, 4, 4, 4, 4, 4, 4, 4, 4, 4, 4, 4, 4, 4, 4, 4,
     4, 4, 4, 4, 4, 4, 4, 4, 4, 4, 4, 4, 5, 5, 5, 5, 5, 5, 6, 7, 6, 7, 6, 7, 7, 7,
     6, 7, 6, 7, 7, 6, 6, 7, 7, 7, 7, 3, 3, 3, 3, 3, 3, 3, 3, 3, 4, 4, 4, 4, 4, 4,
     4, 4, 4, 4, 4, 4, 4, 4, 4, 4, 4, 4, 8, 8, 8, 8, 8, 8, 8, 8, 8, 8, 8, 8, 9, 9,
     9, 9, 9, 9, 9, 9, 9, 9, 9, 9, 9, 9, 9, 9, 9, 9, 9, 9, 9, 9, 9, 9 >>

\* HklAsuChecker(sg) for the entry at position p of main, p = 0 for nullptr
HklAsuChecker(p, main) ==
  LET Made(inv) ==
        IF ~inv.ok THEN inv
        ELSE Ok([idx |-> ccp4_hkl_asu[main[p].number], rot |-> inv.val.rot])
      Basisop(cob) == IF ~cob.ok THEN cob ELSE Made(inverse(cob.val))
  IN IF p = 0 THEN Fail("Missing space group", <<>>)
     ELSE Basisop(parse_triplet(get_basisop(main[p].basisop_idx)))

\* HklAsuChecker::is_in_reference_setting
is_in_reference_setting(idx, h, k, l) ==
  CASE idx = 0 -> l > 0 \/ (l = 0 /\ (h > 0 \/ (h = 0 /\ k >= 0)))
    [] idx = 1 -> k >= 0 /\ (l > 0 \/ (l = 0 /\ h >= 0))
    [] idx = 2 -> h >= 0 /\ k >= 0 /\ l >= 0
    [] idx = 3 -> l >= 0 /\ ((h >= 0 /\ k > 0) \/ (h = 0 /\ k = 0))
    [] idx = 4 -> h >= k /\ k >= 0 /\ l >= 0
    [] idx = 5 -> (h >= 0 /\ k > 0) \/ (h = 0 /\ k = 0 /\ l >= 0)
    [] idx = 6 -> h >= k /\ k >= 0 /\ (k > 0 \/ l >= 0)
    [] idx = 7 -> h >= k /\ k >= 0 /\ (h > k \/ l >= 0)
    [] idx = 8 -> h >= 0 /\ ((l >= h /\ k > h) \/ (l = h /\ k = h))
    [] idx = 9 -> k >= l /\ l >= h /\ h >= 0

\* HklAsuChecker::is_in: the pattern on rot applied to (h, k, l), not divided by DEN
is_in(asu, h, k, l) ==
  is_in_reference_setting(asu.idx,
                          asu.rot[1][1] * h + asu.rot[1][2] * k + asu.rot[1][3] * l,
                          asu.rot[2][1] * h + asu.rot[2][2] * k + asu.rot[2][3] * l,
                          asu.rot[3][1] * h + asu.rot[3][2] * k + asu.rot[3][3] * l)

MaxIndex == 2

\* the Miller indices tested
Cube == {<<h, k, l>> : h \in -MaxIndex..MaxIndex, k \in -MaxIndex..MaxIndex, l \in -MaxIndex..MaxIndex}

\* HklAsuChecker asu(sg) for an entry sg of the table or for nullptr; gops is
\* sg->operations() and other.ops its operations in the order of iteration
MakeChecker(main, ops) ==
  /\ pc = "start"
  /\ \E p \in 0..Len(main) : \E asu \in {HklAsuChecker(p, main)} :
       /\ found' = p
       /\ IF asu.ok
            THEN /\ answer' = asu.val
                 /\ hall' = main[p].hall
                 /\ gops' = ops[p]
                 /\ other' = [ops |-> range_for(ops[p], Iter_begin(ops[p]), <<>>),
                              images |-> <<>>, is_in |-> FALSE,
                              is_in_reference_setting |-> FALSE]
                 /\ failure' = NoFailure
                 /\ pc' = "checker"
            ELSE /\ failure' = FailureOf(asu)
                 /\ pc' = "failed"
                 /\ UNCHANGED <<answer, hall, gops, other>>
  /\ UNCHANGED <<opA, opB, opC, resL, resR, text, inexact, calls>>
  /\ UNCHANGED <<iter, number>>

\* asu.is_in(h, k, l) and asu.is_in_reference_setting(h, k, l) for iter = (h, k, l),
\* and op.apply_to_hkl(iter) for each operation op of the group
IsIn ==
  /\ pc = "checker"
  /\ \E hkl \in Cube :
       /\ iter' = hkl
       /\ other' = [other EXCEPT
                      !.images = [n \in 1..Len(other.ops) |-> apply_to_hkl(other.ops[n], hkl)],
                      !.is_in = is_in(answer, hkl[1], hkl[2], hkl[3]),
                      !.is_in_reference_setting =
                        is_in_reference_setting(answer.idx, hkl[1], hkl[2], hkl[3])]
  /\ pc' = "tested"
  /\ UNCHANGED <<hall, gops, failure, opA, opB, opC, resL, resR, text, inexact, calls>>
  /\ UNCHANGED <<found, answer, number>>

NextAsu ==
  \E main \in {SpaceGroupTable} : \E ops \in {[i \in 1..Len(main) |-> operations(main[i])]} :
    MakeChecker(main, ops) \/ IsIn

SpecAsu == InitGroup /\ [][NextAsu]_vars

----------------------------------------------------------------------------
(* Properties of the Hall-symbol interpreter and of the closure *)

\* C1: for every table entry, the order() operations enumerated from
\* symops_from_hall(entry.hall), each sym op translated by each centring vector
\* and wrapped, are pairwise distinct: order() is the number of distinct operations.
\* No table entry fails to be interpreted.
C1_OrderCountsDistinctOps ==
  hall \in TableHalls =>
    /\ pc \in {"generators", "closed"}
    /\ (pc = "closed" => Cardinality(OpsOf(gops)) = order(gops))

C1_FaceCentredCubicGroup ==
  /\ pc = "closed"
  /\ hall \in TableHalls
  /\ Len(gops.sym_ops) = 48
  /\ Len(gops.cen_ops) = 4
  /\ Cardinality(OpsOf(gops)) = 192

HasClause(h) == \E i \in 1..Len(h) : h[i] = "("

\* C2: after add_missing_elements on the generators of a tabulated Hall symbol
\* the enumerated operations are closed under operator*, no two sym_ops share a
\* rotation matrix, and the generators the symbol wrote are among the operations.
C2_ClosedUnderComposition ==
  (pc = "closed" /\ hall \in TableHalls) =>
    LET ops == OpsOf(gops) IN
    /\ \A a \in ops : \A b \in ops : OpMul(a, b) \in ops
    /\ \A i \in 1..Len(gops.sym_ops) : \A j \in 1..Len(gops.sym_ops) :
         i # j => gops.sym_ops[i].rot # gops.sym_ops[j].rot
    /\ identity \in ops
    /\ ~HasClause(hall) => \A k \in 1..Len(calls) : wrap(calls[k].op) \in ops

C2_ClosureAddedElements ==
  /\ pc = "closed"
  /\ hall \in TableHalls
  /\ Len(gops.cen_ops) = 3
  /\ Len(calls) = 2
  /\ Len(gops.sym_ops) = 12
  /\ \E a \in OpsOf(gops) : \E b \in OpsOf(gops) : OpMul(a, b) # OpMul(b, a)

----------------------------------------------------------------------------
(* Properties of single operations and of triplets *)

InRange(op) == \A i \in 1..3 : op.tran[i] \in 0..(DEN - 1)

\* C3: for all operations a, b, c enumerated from a closed GroupOps, operator*
\* satisfies the group axioms: (a*b)*c = a*(b*c), identity*a = a*identity = a,
\* and a.inverse() exists with a * a.inverse() = identity.
C3_GroupAxioms ==
  /\ pc = "associated" => resL = resR
  /\ pc = "identity_law" => (resL = opA /\ resR = opA)
  /\ pc = "inverse_law" => resL = identity
  /\ hall \in AlgebraHalls => pc # "failed"

C3_NonCommutingTriple ==
  /\ pc = "associated"
  /\ OpMul(opA, opB) # OpMul(opB, opA)
  /\ opC.tran # <<0, 0, 0>>
  /\ opC.rot # identity.rot
  /\ resL = resR

\* -y,x-y,z-2/3
UnwrappedThreefold ==
  [rot |-> << <<0, -DEN, 0>>, <<DEN, -DEN, 0>>, <<0, 0, DEN>> >>, tran |-> <<0, 0, -16>>]

\* C4: for every operation op of the fully expanded group of every table entry,
\* and for operations whose translation is outside [0, DEN) such as -y,x-y,z-2/3,
\* parse_triplet(op.triplet()) succeeds and equals op, matrix and translation.
C4_TripletRoundTrip ==
  /\ pc # "round_trip_failed"
  /\ pc = "round_trip" => resL = opA

C4_UnwrappedRoundTrip ==
  /\ pc = "round_trip"
  /\ opA = UnwrappedThreefold
  /\ text = <<"-", "y", ",", "x", "-", "y", ",", "z", "-", "2", "/", "3">>
  /\ resL = opA

\* C5: for any two Ops a and b given to combine, symmetry operations as well as
\* change-of-basis operators with fractional matrix entries, every division by
\* DEN inside a.combine(b) has remainder zero.
C5_CombineNeverTruncates == pc = "combined" => inexact = 0

\* C6: wrap maps every translation component t, negative or >= DEN, to the
\* floor-style residue t mod DEN in [0, DEN), leaves the rotation unchanged and is
\* idempotent; every product a*b has all translation components in [0, DEN).
C6_WrapIsFloorModulo ==
  /\ pc = "wrapped" =>
       /\ \A i \in 1..3 : resL.tran[i] = opA.tran[i] % DEN
       /\ InRange(resL)
       /\ resL.rot = opA.rot
       /\ resR = resL
  /\ pc \in {"multiplied", "inverse_law"} => InRange(resL)
  /\ pc \in {"associated", "identity_law"} => (InRange(resL) /\ InRange(resR))

C6_WrappedFarTranslation ==
  /\ pc = "wrapped"
  /\ opA.tran[1] < -DEN
  /\ opA.tran[2] > DEN
  /\ opA.rot # identity.rot
  /\ resL.tran = <<opA.tran[1] + 2 * DEN, opA.tran[2] - DEN, 0>>

\* C7: parse_triplet rejects a text that does not contain exactly two commas, a
\* part containing an unsupported character, and a part that ends in a trailing
\* sign such as "x+,y,z", each kind with its own message.
C7_ThreeDistinctMessages ==
  pc \in {"parsed", "parse_failed"} =>
    /\ text \in CommaCountTexts =>
         (pc = "parse_failed" /\ failure.msg = "expected exactly two commas in triplet")
    /\ text \in UnsupportedCharTexts =>
         (pc = "parse_failed" /\ failure.msg = "unexpected character '")
    /\ text \in TrailingSignTexts =>
         (pc = "parse_failed" /\ failure.msg = "trailing sign in: ")

----------------------------------------------------------------------------
(* Properties of the generators of a Hall symbol *)

Blank(c) == c \in {" ", TAB, "_"}

\* where the blank-separated words of the Hall symbol h start
WordStarts(h) == {i \in 1..Len(h) : ~Blank(h[i]) /\ (i = 1 \/ Blank(h[i - 1]))}

\* the words after the lattice word and before the change-of-basis clause, in order
MatrixSymbols(h) ==
  LET first == CHOOSE i \in WordStarts(h) : \A j \in WordStarts(h) : i <= j
      clause == IF HasClause(h) THEN CHOOSE i \in 1..Len(h) : h[i] = "(" /\ \A j \in 1..(i - 1) : h[j] # "("
                ELSE Len(h) + 1
      starts == {i \in WordStarts(h) : i > first /\ i < clause}
      last(i) == CHOOSE j \in i..Len(h) : (j = Len(h) \/ Blank(h[j + 1])) /\ \A k \in i..j : ~Blank(h[k])
  IN [n \in 1..Cardinality(starts) |->
        LET i == CHOOSE i \in starts : Cardinality({j \in starts : j < i}) = n - 1
        IN Sub(h, i, last(i))]

LeadingMinus(h) == \E i \in WordStarts(h) : h[i] = "-" /\ \A j \in WordStarts(h) : i <= j

LatticeLetter(h) ==
  LET first == CHOOSE i \in WordStarts(h) : \A j \in WordStarts(h) : i <= j
  IN IF h[first] = "-" THEN h[first + 1] ELSE h[first]

RECURSIVE RotPower(_, _)
\* the n-th power of the rotation part r
RotPower(r, n) ==
  IF n = 0 THEN identity.rot
  ELSE combine([rot |-> r, tran |-> <<0, 0, 0>>],
               [rot |-> RotPower(r, n - 1), tran |-> <<0, 0, 0>>]).rot

\* op is a rotation of the order the matrix symbol sym writes, improper iff sym starts with -
IsRotationOf(op, sym) ==
  LET neg == sym[1] = "-"
      N == DigitValue(IF neg THEN sym[2] ELSE sym[1])
      r == IF neg THEN negated_rot(op) ELSE op.rot
  IN /\ RotPower(r, N) = identity.rot
     /\ \A k \in 1..(N - 1) : RotPower(r, k) # identity.rot
     /\ det_rot(op) = (IF neg THEN -1 ELSE 1) * DEN * DEN * DEN

P4w2c == <<"P", " ", "4", "w", " ", "2", "c">>

P4w2cTriplets ==
  << <<"x", ",", "y", ",", "z">>,
     <<"-", "y", ",", "x", ",", "z", "+", "1", "/", "4">>,
     <<"x", ",", "-", "y", ",", "-", "z", "+", "1", "/", "2">> >>

OmittedAxis(sym) == \A i \in 1..Len(sym) : sym[i] \notin {"x", "y", "z", "'", "\"", "*"}

SymbolOrder(sym) == DigitValue(IF sym[1] = "-" THEN sym[2] ELSE sym[1])

\* the rotation of an N-fold about z, or of the diagonal mark, negated for a leading -
SignedRotation(sym, sel) ==
  IF sym[1] = "-"
    THEN negated_rot([rot |-> hall_rotation_z(sel).val, tran |-> <<0, 0, 0>>])
    ELSE hall_rotation_z(sel).val

\* C9: a matrix symbol with no axis marker gets axis z when it is the first symbol;
\* a 2-fold in second position gets axis x after an order 2 or 4 and the '-diagonal
\* after an order 3 or 6; a 3-fold in third position gets the *-diagonal; any other
\* rotation written without an axis makes generators_from_hall fail (an order-1
\* symbol has no axis to omit).
C9_OtherOmittedAxesRejected ==
  pc = "generators" =>
    \A k \in 1..Len(calls) :
      LET c == calls[k]
          N == SymbolOrder(c.symbol)
      IN OmittedAxis(c.symbol) =>
           IF c.pos = 1 THEN c.op.rot = SignedRotation(c.symbol, N)
           ELSE IF c.pos = 2 /\ N = 2 /\ c.prev \in {2, 4}
             THEN c.op.rot = alter_order(SignedRotation(c.symbol, 2), 3, 1, 2)
           ELSE IF c.pos = 2 /\ N = 2 /\ c.prev \in {3, 6}
             THEN c.op.rot = SignedRotation(c.symbol, Ord("'"))
           ELSE IF c.pos = 3 /\ N = 3
             THEN c.op.rot = SignedRotation(c.symbol, Ord("*"))
           ELSE N = 1

\* a is a contiguous part of h
IsSubstring(a, h) == \E i \in 1..(Len(h) - Len(a) + 1) : Sub(h, i, i + Len(a) - 1) = a

\* C10: every malformed Hall symbol (bad rotation-order digit, unknown lattice
\* letter, missing ')', wrong comma count in the basis-change triplet) makes
\* generators_from_hall fail, and the failure carries the offending substring
\* of the input.
C10_FailureCarriesSubstring ==
  hall \in MalformedHalls =>
    /\ pc = "failed"
    /\ failure.arg # <<>>
    /\ IsSubstring(failure.arg, hall)

----------------------------------------------------------------------------
(* Properties of the queries on a GroupOps *)

\* the positions (from 1) of the table entries that have the Hall symbol h
EntriesOfHall(h) == {i \in 1..NumEntries : SpaceGroupTable[i].hall = h}

EqualVolume(cob) == det_rot(cob) \in {DEN * DEN * DEN, -(DEN * DEN * DEN)}

\* the position (from 1) of the first table entry with Hermann-Mauguin symbol hm
EntryOfHm(hm) == FirstOf({i \in 1..NumEntries : SpaceGroupTable[i].hm = hm})

\* a unimodular basis change: whole-number matrix of determinant 1 or -1
Unimodular(cob) ==
  /\ EqualVolume(cob)
  /\ \A i \in 1..3 : \A j \in 1..3 : cob.rot[i][j] % DEN = 0

C13_CentricIffMinusIdentity ==
  pc = "centric" =>
    /\ answer = (\E i \in 1..Len(gops.sym_ops) :
                   gops.sym_ops[i].rot = << <<-DEN, 0, 0>>, <<0, -DEN, 0>>, <<0, 0, -DEN>> >>)
    /\ (hall \in TableHalls /\ LeadingMinus(hall)) => answer = TRUE
    /\ hall = <<"P", " ", "1">> => answer = FALSE

C13_InversionAwayFromOrigin ==
  /\ pc = "centric"
  /\ hall \in TableHalls
  /\ ~LeadingMinus(hall)
  /\ answer = TRUE
  /\ \E i \in 1..Len(gops.sym_ops) :
       /\ gops.sym_ops[i].rot = << <<-DEN, 0, 0>>, <<0, -DEN, 0>>, <<0, 0, -DEN>> >>
       /\ gops.sym_ops[i].tran # <<0, 0, 0>>

\* cen holds the vectors of the list canon, each once, in some order
IsOrderingOf(cen, canon) ==
  /\ Len(cen) = Len(canon)
  /\ \E q \in Permutations(1..Len(canon)) : \A n \in 1..Len(canon) : cen[n] = canon[q[n]]

\* C14: find_centering() returns the letter L whenever cen_ops is, in any order,
\* the list centring_vectors gives for L, L one of P A B C I F R S T H (the four
\* vectors 0,0,0; 0,1/2,1/2; 1/2,0,1/2; 1/2,1/2,0 give F), and 0 for every
\* other cen_ops.
C14_FindCenteringAnyOrder ==
  pc = "centring" =>
    /\ \A L \in LatticeLetters :
         IsOrderingOf(gops.cen_ops, centring_vectors(L).val) => answer = L
    /\ (\A L \in LatticeLetters : ~IsOrderingOf(gops.cen_ops, centring_vectors(L).val))
         => answer = NUL
    /\ (/\ Len(gops.cen_ops) = 4
        /\ {gops.cen_ops[n] : n \in 1..4} =
             {<<0, 0, 0>>, <<0, 12, 12>>, <<12, 0, 12>>, <<12, 12, 0>>}) => answer = "F"

C14_UnsortedFaceCentring ==
  /\ pc = "centring"
  /\ answer = "F"
  /\ gops.cen_ops = << <<12, 12, 0>>, <<0, 0, 0>>, <<12, 0, 12>>, <<0, 12, 12>> >>

\* the nonzero i-th translation components of the order() operations of g
NonzeroComponents(g, i) == {get_op(g, n).tran[i] : n \in 0..(order(g) - 1)} \ {0}

\* C15: find_grid_factors() returns for each axis i the value DEN / m_i, m_i the
\* smallest nonzero i-th translation component over all order() wrapped
\* operations (centring vectors included), and 1 when no operation has a nonzero
\* component on that axis; (1,2,1) for "P 2yb" and (1,1,6) for "P 61".
C15_GridFactorsFromSmallestShift ==
  pc = "grid_factors" =>
    /\ \A i \in 1..3 :
         LET comps == NonzeroComponents(gops, i) IN
         answer[i] = IF comps = {} THEN 1
                     ELSE DEN \div (CHOOSE m \in comps : \A k \in comps : m <= k)
    /\ hall = <<"P", " ", "2", "y", "b">> => answer = <<1, 2, 1>>
    /\ hall = <<"P", " ", "6", "1">> => answer = <<1, 1, 6>>

C15_FactorFromCentringAlone ==
  /\ pc = "grid_factors"
  /\ hall \in TableHalls
  /\ answer = <<2, 2, 2>>
  /\ \A n \in 1..Len(gops.sym_ops) : gops.sym_ops[n].tran = <<0, 0, 0>>
  /\ Len(gops.cen_ops) = 4

\* C16: iterating a GroupOps from begin() reaches end() after exactly order()
\* increments and not before, also when it is started again after the end; the
\* element visited n-th (from 0) equals get_op(n), which is
\* sym_ops[n mod |sym_ops|] translated by cen_ops[n div |sym_ops|] and wrapped:
\* the index into sym_ops varies fastest.
C16_IterationVisitsOrderElements ==
  (pc \in {"iterating", "iterated"} /\ gops.sym_ops # <<>>) =>
    /\ number \in 0..order(gops)
    /\ (iter = Iter_end(gops)) <=> (number = order(gops))
    /\ pc = "iterated" => number = order(gops)
    /\ number > 0 =>
         /\ resL = resR
         /\ resL = wrap(translate(gops.sym_ops[((number - 1) % Len(gops.sym_ops)) + 1],
                                  gops.cen_ops[((number - 1) \div Len(gops.sym_ops)) + 1]))

C16_SecondPassOverLargestGroup ==
  /\ pc = "iterated"
  /\ answer = "again"
  /\ Len(gops.sym_ops) = 48
  /\ Len(gops.cen_ops) = 4
  /\ number = 192
  /\ resL = get_op(gops, 191)
  /\ resL.tran # gops.sym_ops[48].tran

----------------------------------------------------------------------------
(* Properties of the lookups by name, by number and by reference setting *)

\* name is a number written in digits
IsNumberText(name) == name # <<>> /\ \A n \in 1..Len(name) : IsDigit(name[n])

RECURSIVE ValueOfDigits(_)
ValueOfDigits(name) ==
  IF name = <<>> THEN 0
  ELSE 10 * ValueOfDigits(SubSeq(name, 1, Len(name) - 1)) + DigitValue(name[Len(name)])

\* C17: find_spacegroup_by_name normalises case and blanks: two names that
\* differ only in letter case or in blanks (space, tab, underscore) resolve to
\* the same table entry (or both to none); a name starting with H is treated as
\* starting with R ("H3" gives "R 3:H"); a bare number is resolved as a ccp4 number.
C17_NamesNormalised ==
  /\ pc = "respelled" => found = number
  /\ (pc = "named" /\ text = <<"H", "3">>) =>
       /\ found \in 1..NumEntries
       /\ SpaceGroupTable[found].hm = <<"R", " ", "3">>
       /\ SpaceGroupTable[found].ext = "H"
  /\ (pc = "named" /\ IsNumberText(text)) =>
       found = FirstOf({i \in 1..NumEntries : SpaceGroupTable[i].ccp4 = ValueOfDigits(text)})

\* the symbol L 1 s 1 that the abbreviated monoclinic name "L s" stands for
BUniqueSymbol(name) ==
  <<name[1], " ", "1", " ">> \o SelectSeq(Tail(name), LAMBDA c : c # " ") \o <<" ", "1">>

\* C18: for every table entry sg, find_spacegroup_by_name(sg.short_name())
\* returns an entry with the number of sg; an abbreviated monoclinic name "L s"
\* ("I2", "P2", "P21") returns the entry with the symbol "L 1 s 1" when the
\* table has one.
C18_ShortNamesResolve ==
  /\ pc = "short_named" =>
       /\ found \in 1..NumEntries
       /\ SpaceGroupTable[found].number = SpaceGroupTable[number].number
  /\ (pc \in {"named", "short_named"} /\ Len(text) > 1
        /\ \E i \in 1..NumEntries : SpaceGroupTable[i].hm = BUniqueSymbol(text)) =>
       /\ found \in 1..NumEntries
       /\ SpaceGroupTable[found].hm = BUniqueSymbol(text)

C18_I2IsI121 ==
  /\ pc = "short_named"
  /\ text = <<"I", "2">>
  /\ SpaceGroupTable[number].hm = <<"I", " ", "1", " ", "2", " ", "1">>
  /\ found = number

\* the symbols the table had before 1992 for the names of alt_names, in its order
Pre1992Names == <<
  <<"A", " ", "b", " ", "m", " ", "2">>,
  <<"B", " ", "m", " ", "a", " ", "2">>,
  <<"B", " ", "2", " ", "c", " ", "m">>,
  <<"C", " ", "2", " ", "m", " ", "b">>,
  <<"C", " ", "m", " ", "2", " ", "a">>,
  <<"A", " ", "c", " ", "2", " ", "m">>,
  <<"A", " ", "b", " ", "a", " ", "2">>,
  <<"B", " ", "b", " ", "a", " ", "2">>,
  <<"B", " ", "2", " ", "c", " ", "b">>,
  <<"C", " ", "2", " ", "c", " ", "b">>,
  <<"C", " ", "c", " ", "2", " ", "a">>,
  <<"A", " ", "c", " ", "2", " ", "a">>,
  <<"C", " ", "m", " ", "c", " ", "a">>,
  <<"C", " ", "c", " ", "m", " ", "b">>,
  <<"A", " ", "b", " ", "m", " ", "a">>,
  <<"A", " ", "c", " ", "a", " ", "m">>,
  <<"B", " ", "b", " ", "c", " ", "m">>,
  <<"B", " ", "m", " ", "a", " ", "b">>,
  <<"C", " ", "m", " ", "m", " ", "a">>,
  <<"A", " ", "b", " ", "m", " ", "m">>,
  <<"B", " ", "m", " ", "c", " ", "m">>,
  <<"C", " ", "c", " ", "c", " ", "a">>,
  <<"C", " ", "c", " ", "c", " ", "a">>,
  <<"A", " ", "b", " ", "a", " ", "a">>,
  <<"A", " ", "b", " ", "a", " ", "a">>,
  <<"B", " ", "b", " ", "c", " ", "b">>,
  <<"B", " ", "b", " ", "c", " ", "b">>
>>

\* C19: a name of alt_names matches no entry of the main table, so it is looked
\* up in alt_names after the whole main table; written with its extension it
\* returns the entry of main at its recorded position, and with or without
\* the extension the entry returned carries the pre-1992 symbol of the same
\* group, which differs from the name only where the name has 'e' ("C m m e"
\* returns "C m m a", "A e m 2" returns "A b m 2").
C19_AltNamesAfterMain ==
  pc = "alt_named" =>
    LET alt == alt_names[number] IN
    /\ \A i \in 1..NumEntries :
         ~main_entry_matches(text, Ord(text[1]), 3, SpaceGroupTable[i])
    /\ found \in 1..NumEntries
    /\ text = AltNameText(alt, TRUE) =>
         /\ found = alt.pos + 1
         /\ SpaceGroupTable[found].ext = alt.ext
    /\ SpaceGroupTable[found].hm = Pre1992Names[number]
    /\ Len(SpaceGroupTable[found].hm) = Len(alt.hm)
    /\ \A n \in 1..Len(alt.hm) :
         IF alt.hm[n] = "e" THEN SpaceGroupTable[found].hm[n] \in {"a", "b", "c"}
         ELSE SpaceGroupTable[found].hm[n] = alt.hm[n]
    /\ text = <<"C", " ", "m", " ", "m", " ", "e">> =>
         SpaceGroupTable[found].hm = <<"C", " ", "m", " ", "m", " ", "a">>
    /\ text = <<"A", " ", "e", " ", "m", " ", "2">> =>
         SpaceGroupTable[found].hm = <<"A", " ", "b", " ", "m", " ", "2">>

C19_SecondOriginChoiceByAltName ==
  /\ pc = "alt_named"
  /\ text = <<"C", " ", "c", " ", "c", " ", "e", ":", "2">>
  /\ found = 323
  /\ SpaceGroupTable[found].hm = <<"C", " ", "c", " ", "c", " ", "a">>
  /\ SpaceGroupTable[found].ext = "2"

\* the entries of the table with number n whose basis operator is x,y,z
ReferenceEntries(n) ==
  {i \in 1..NumEntries :
     /\ SpaceGroupTable[i].number = n
     /\ parse_triplet(get_basisop(SpaceGroupTable[i].basisop_idx)).val = identity}

\* C20: get_spacegroup_reference_setting(n) returns, for every n in 1..230, the
\* one entry with number n whose basis operator is the identity (48 gives
\* "P n n n:2" although find_spacegroup_by_number(48) gives "P n n n:1", which
\* is no reference setting), and fails with std::invalid_argument for every other n.
C20_ReferenceSettingPerNumber ==
  /\ (pc \in {"reference", "failed"} /\ number \in 1..230) =>
       /\ pc = "reference"
       /\ ReferenceEntries(number) = {found}
  /\ (pc \in {"reference", "failed"} /\ number \notin 1..230) =>
       /\ pc = "failed"
       /\ answer = "std::invalid_argument"
  /\ (pc = "reference" /\ number = 48) =>
       /\ SpaceGroupTable[found].hm = <<"P", " ", "n", " ", "n", " ", "n">>
       /\ SpaceGroupTable[found].ext = "2"
  /\ (pc = "numbered" /\ number = 48) =>
       /\ found \in 1..NumEntries
       /\ SpaceGroupTable[found].hm = <<"P", " ", "n", " ", "n", " ", "n">>
       /\ SpaceGroupTable[found].ext = "1"
       /\ found \notin ReferenceEntries(48)

C20_ReferenceIsNotTheFirstOfItsNumber ==
  /\ pc = "reference"
  /\ number = 48
  /\ found \in ReferenceEntries(48)
  /\ \E i \in 1..(found - 1) : SpaceGroupTable[i].number = 48

----------------------------------------------------------------------------
(* Properties of the translation written by hall_matrix_symbol *)

\* C27: whenever a matrix symbol of an accepted Hall symbol carries a
\* fractional-translation digit, the component of op.tran[] that is incremented
\* has index 0, 1 or 2, also for symbols with a diagonal-axis marker and for
\* order-1 symbols with no axis after the first position: nothing is written
\* outside the array and the behaviour is always defined.
C27_TranIndexInRange ==
  /\ pc # "undefined"
  /\ \A k \in 1..Len(calls) : calls[k].tran_index \in 0..2

----------------------------------------------------------------------------
(* Properties of the program sg and of the lookups that miss *)

\* C21: a lookup by name, by number or by operations that finds nothing returns
\* the null entry and raises nothing, whatever it is given; process_arg looks
\* its argument up by name first, reads it as a Hall symbol only when the name
\* was not found, and reports "Space group not found" when the Hall symbol
\* cannot be interpreted: no exception leaves process_arg.
C21_MissIsAValue ==
  /\ pc \notin {"raised", "failed"}
  /\ failure = NoFailure
  /\ pc \in {"named", "numbered", "looked_up", "reported"} => found \in 0..NumEntries
  /\ pc = "reported" =>
       /\ answer[1] = "find_spacegroup_by_name"
       /\ found = 0 <=> answer[Len(answer)] = "Space group not found: "
       /\ found # 0 <=> answer[Len(answer)] = "Number: "
       /\ (\E k \in 1..Len(answer) : answer[k] = "symops_from_hall")
            <=> find_spacegroup_by_name(text, SpaceGroupTable) = 0
       /\ find_spacegroup_by_name(text, SpaceGroupTable) # 0
            => found = find_spacegroup_by_name(text, SpaceGroupTable)
       /\ find_spacegroup_by_name(text, SpaceGroupTable) = 0 /\ ~symops_from_hall(text).ok
            => /\ found = 0
               /\ answer = <<"find_spacegroup_by_name", "symops_from_hall",
                             "Space group not found: ">>

\* "P 5" is no name and no Hall symbol: reported as not found
C21_BadHallReportedNotFound ==
  /\ pc = "reported"
  /\ text = <<"P", " ", "5">>
  /\ found = 0
  /\ ~symops_from_hall(text).ok
  /\ answer = <<"find_spacegroup_by_name", "symops_from_hall", "Space group not found: ">>

\* C28: find_spacegroup_by_number(n) returns an entry only when n is the ccp4
\* number assigned to a setting, and then the first entry carrying it, whose
\* space-group number is n mod 1000 (5 gives C 1 2 1, 4005 gives I 1 2 1); for
\* n = 0, the value of the entries that have no ccp4 number, and for every
\* unassigned n it returns the null entry.
C28_ByNumberOnlyAssigned ==
  pc = "numbered" =>
    /\ found \in 0..NumEntries
    /\ found # 0 =>
         /\ number # 0
         /\ SpaceGroupTable[found].ccp4 = number
         /\ \A i \in 1..(found - 1) : SpaceGroupTable[i].ccp4 # number
         /\ number % 1000 = SpaceGroupTable[found].number
    /\ number = 5 => found # 0 /\ SpaceGroupTable[found].hm = <<"C", " ", "1", " ", "2", " ", "1">>
    /\ number = 4005 => found # 0 /\ SpaceGroupTable[found].hm = <<"I", " ", "1", " ", "2", " ", "1">>
    /\ (number = 0 \/ \A i \in 1..NumEntries : SpaceGroupTable[i].ccp4 # number) => found = 0

----------------------------------------------------------------------------
(* Properties of inverse and of change_basis there and back *)

\* the failure of Op::inverse
SingularMatrix(f) == f.msg = "cannot invert matrix: "

\* C25 as stated: Op::inverse fails, returning nothing, exactly when det_rot()
\* is 0; change_basis(cob) with a singular cob, one of a Hall clause included,
\* fails and leaves sym_ops and cen_ops as they were.
C25_SingularCobAlwaysFails ==
  /\ pc \in {"inverted", "not_inverted"} /\ opB = NoOp =>
       /\ pc = "not_inverted" <=> det_rot(opA) = 0
       /\ pc = "not_inverted" => SingularMatrix(failure) /\ resL = NoOp
  /\ pc \in {"changed", "failed"} /\ opA # NoOp /\ det_rot(opA) = 0 =>
       /\ pc = "failed"
       /\ SingularMatrix(failure)
       /\ gops = other
  /\ hall \in SingularClauseHalls =>
       /\ pc = "failed"
       /\ SingularMatrix(failure)
       /\ gops = EmptyGroupOps

\* C25: Op::inverse fails, returning nothing, exactly when det_rot() is 0;
\* change_basis(cob) with a singular cob on a GroupOps that has operations and
\* centring vectors, one of a Hall clause included, fails and leaves sym_ops
\* and cen_ops as they were, and fails for no other cob; on a GroupOps without
\* operations or without centring vectors it returns without failing and
\* without changing anything.
C25_SingularCobFailsUnlessEmpty ==
  /\ pc \in {"inverted", "not_inverted"} /\ opB = NoOp =>
       /\ pc = "not_inverted" <=> det_rot(opA) = 0
       /\ pc = "not_inverted" => SingularMatrix(failure) /\ resL = NoOp
  /\ pc \in {"changed", "failed"} /\ opA # NoOp =>
       /\ pc = "failed" <=> /\ det_rot(opA) = 0
                            /\ other.sym_ops # <<>>
                            /\ other.cen_ops # <<>>
       /\ pc = "failed" => SingularMatrix(failure) /\ gops = other
       /\ other.sym_ops = <<>> \/ other.cen_ops = <<>> => gops = other
  /\ hall \in SingularClauseHalls =>
       /\ pc = "failed"
       /\ SingularMatrix(failure)
       /\ gops = EmptyGroupOps

\* the operations of F m -3 m, 192 of them, are untouched by the failed change
\* of basis x,x,z
C25_LargestGroupKeptOnFailure ==
  /\ pc = "failed"
  /\ opA = parse_triplet(<<"x", ",", "x", ",", "z">>).val
  /\ hall = <<"-", "F", " ", "4", " ", "2", " ", "3">>
  /\ Len(gops.sym_ops) = 48
  /\ Len(gops.cen_ops) = 4
  /\ gops = other
  /\ SingularMatrix(failure)

\* C29: for the operations G of a table entry and a change of basis cob with a
\* whole-number rotation of determinant 1 or -1, change_basis(cob) followed by
\* change_basis(cob.inverse()) gives a GroupOps that is_same_as G and has as
\* many sym_ops and as many cen_ops as G.
C29_ChangeBasisThereAndBack ==
  pc = "changed_back" /\ hall \in TableHalls /\ Unimodular(opA) =>
    /\ is_same_as(gops, other)
    /\ Len(gops.sym_ops) = Len(other.sym_ops)
    /\ Len(gops.cen_ops) = Len(other.cen_ops)

\* I 41/a m d:1 moved by x+1/8,y+1/8,z+1/8 and back
C29_ShiftedAndBack ==
  /\ pc = "changed_back"
  /\ hall = <<"I", " ", "4", "b", "w", " ", "2", "b", "w", " ", "-", "1", "b", "w">>
  /\ opA = parse_triplet(<<"x", "+", "1", "/", "8", ",", "y", "+", "1", "/", "8", ",",
                           "z", "+", "1", "/", "8">>).val
  /\ opB = inverse(opA).val
  /\ Len(other.sym_ops) = 16
  /\ Len(other.cen_ops) = 2
  /\ is_same_as(gops, other)

----------------------------------------------------------------------------
(* Properties of the closure as a loop *)

GroupTooLarge(f) == f.msg = "1000+ elements in the group should not happen"

\* the loops of add_missing_elements go on only while sym_ops has at most
\* MaxGroupSize elements; it returns with at most that many, equal to what
\* the closure computes in one piece for a small group, and raises its
\* failure of size only with more
ClosureWithinCap ==
  /\ pc \in {"cyclic", "generators", "pass", "returned"} => Len(gops.sym_ops) <= MaxGroupSize
  /\ pc = "failed" /\ answer # <<>> /\ answer[1] = identity =>
       GroupTooLarge(failure) /\ Len(gops.sym_ops) > MaxGroupSize
  /\ pc = "returned" /\ Len(gops.sym_ops) <= 48 =>
       gops = add_missing_elements([sym_ops |-> answer, cen_ops |-> << <<0, 0, 0>> >>]).val

\* C23: for every generator list that starts with the identity,
\* add_missing_elements comes to an end: it returns with at most 1023
\* sym_ops, or it fails because the group is too large once sym_ops has more
\* than 1023 elements; it does not go on for ever, two rotations of finite
\* order that generate an infinite group included: the steps made in its
\* loops stay below a number fixed by the cap and the length of the list, and
\* the indices of the innermost loops stay within their ranges.
C23_ClosureTerminates ==
  /\ ClosureWithinCap
  /\ pc = "coset" => other.j \in 1..(other.len + 1) /\ other.n \in 1..(other.i + 1)
  /\ number <= Len(answer) * (MaxGroupSize + 1) * (MaxGroupSize + 1)

\* the 4-fold and the hexagonal 3-fold about z generate an infinite group:
\* the closure fails at the end of a pass
C23_InfiniteGroupCutOff ==
  /\ pc = "failed"
  /\ answer = GeneratorsOf(<<"P", " ", "4", " ", "3", "z">>)
  /\ GroupTooLarge(failure)
  /\ Len(gops.sym_ops) > MaxGroupSize
  /\ other.i = 1
  /\ Len(other.coset_repr) > other.len

\* C26: for every table entry G, split_centering_vectors of the order()
\* operations of G in the order of iteration gives a GroupOps with as many
\* sym_ops and as many cen_ops as G that is_same_as G.
C26_SplitInvertsExpansion ==
  pc = "split" /\ hall \in TableHalls =>
    /\ Len(gops.sym_ops) = Len(other.sym_ops)
    /\ Len(gops.cen_ops) = Len(other.cen_ops)
    /\ is_same_as(gops, other)
    /\ is_same_as(other, gops)

\* F d 2 d rebuilt from its 16 operations: the same group, the translations
\* kept in sym_ops not those written by the closure
C26_FaceCentredRebuilt ==
  /\ pc = "split"
  /\ hall = <<"F", " ", "-", "2", "d", " ", "-", "2", "d">>
  /\ Len(other.sym_ops) = 4
  /\ Len(other.cen_ops) = 4
  /\ gops # other
  /\ is_same_as(gops, other)

----------------------------------------------------------------------------
(* Properties of every GroupOps produced *)

\* C24: in every GroupOps produced by generators_from_hall,
\* add_missing_elements, change_basis and split_centering_vectors, called in
\* any order and the last for any list of operations, sym_ops[0] is the
\* identity and cen_ops[0] is the zero vector.
C24_FirstElementsFixed ==
  pc = "produced" =>
    /\ gops.sym_ops # <<>>
    /\ gops.sym_ops[1] = identity
    /\ gops.cen_ops # <<>>
    /\ gops.cen_ops[1] = <<0, 0, 0>>

----------------------------------------------------------------------------
(* Properties of the asymmetric unit of reciprocal space *)

\* the members of a set of indices that are in the asymmetric unit
InAsu(asu, S) == {r \in S : is_in(asu, r[1], r[2], r[3])}

\* the images of iter under the operations of the group
Orbit == {other.images[n] : n \in 1..Len(other.images)}

\* the images together with their Friedel mates
FriedelOrbit == Orbit \cup {<<-r[1], -r[2], -r[3]>> : r \in Orbit}

\* C22: for every entry of the table and every (h,k,l) of the cube, exactly
\* one member of the orbit of (h,k,l) under all operations of the group
\* satisfies is_in of the entry's checker.
C22_OneOrbitMemberInAsu ==
  pc = "tested" => Cardinality(InAsu(answer, Orbit)) = 1

\* C30: for every entry in the reference setting and every (h,k,l) of the
\* cube, is_in, which tests the indices multiplied by DEN, agrees with
\* is_in_reference_setting, and exactly one of the distinct images of (h,k,l)
\* under apply_to_hkl of the operations of the group and their Friedel mates
\* satisfies is_in.
C30_ReferenceAsuWithFriedel ==
  pc = "tested" /\ is_reference_setting(SpaceGroupTable[found]) =>
    /\ answer.rot = identity.rot
    /\ other.is_in = other.is_in_reference_setting
    /\ \A r \in FriedelOrbit :
         is_in(answer, r[1], r[2], r[3]) = is_in_reference_setting(answer.idx, r[1], r[2], r[3])
    /\ Cardinality(InAsu(answer, FriedelOrbit)) = 1

\* P 63/m m c and (2,-1,1): 24 operations, one of the images in the
\* asymmetric unit, and not (2,-1,1) itself
C30_HexagonalOrbit ==
  /\ pc = "tested"
  /\ hall = <<"-", "P", " ", "6", "c", " ", "2", "c">>
  /\ is_reference_setting(SpaceGroupTable[found])
  /\ iter = <<2, -1, 1>>
  /\ Len(other.images) = 24
  /\ ~other.is_in
  /\ Cardinality(InAsu(answer, FriedelOrbit)) = 1

============================================================================
